---- MODULE Spec2Model ----
(***************************************************************************)
(* A model of the table-use-case data table: the in-memory query engine    *)
(* (fetchTasks, fetchUsers) and the URL-backed filter state (useFilters,   *)
(* cleanEmptyParams).                                                      *)
(*                                                                         *)
(* JavaScript values are tagged records that all have the same fields, so  *)
(* that values of different types can be compared.  A string is the        *)
(* sequence of its characters; an object is a function from its property   *)
(* names to values; an array is a sequence of values.                      *)
(***************************************************************************)
EXTENDS Integers, Sequences, FiniteSets, TLC

VARIABLES
    data,          \* src/api/task.ts: the module-level task collection
    fakeUserData,  \* api/user.ts: the module-level user collection
    search,        \* the route's search object (the parsed URL query string)
    last,          \* the last operation issued on the URL state, with its input
    fetched,       \* the outcome of the last fetchTasks / fetchUsers call
    renderedFilters, \* useFilters: `filters`, the search object of the last render
    calls,         \* the partials of the setFilters calls made since that render
    instance,      \* DebouncedInput: the number of the latest instance, 0 when none yet
    mounted,       \* DebouncedInput: is that instance mounted
    inputType,     \* DebouncedInput: props.type, "text" or "number"
    inputText,     \* the characters in the input element (e.target.value)
    inputValue,    \* DebouncedInput: the state `value`
    timers,        \* the pending timeouts set by DebouncedInput's effect
    forwarded,     \* the onChange calls the timeouts have made, in order
    idle,          \* milliseconds since the last keystroke or mount, up to debounce
    cancelled      \* the instances unmounted with their timeout pending

\* The state of the table page and the state of a DebouncedInput.
tableVars == <<renderedFilters, calls>>
inputVars == <<instance, mounted, inputType, inputText, inputValue, timers, forwarded, idle, cancelled>>

vars == <<data, fakeUserData, search, last, fetched, renderedFilters, calls,
          instance, mounted, inputType, inputText, inputValue, timers, forwarded, idle,
          cancelled>>

----------------------------------------------------------------------------
(* Bounds of the model.                                                    *)

MaxRecords == 3
MaxPage == 2
\* The setFilters calls made between two renders of the page.
MaxCalls == 2
\* The milliseconds one step of the clock takes.
TickMs == 100
\* The DebouncedInput instances mounted one after another.
MaxInputs == 2
\* The onChange calls of the DebouncedInputs that are recorded.
MaxForwarded == 2

----------------------------------------------------------------------------
(* Characters and strings.                                                 *)

\* The characters of the model's strings, by class, each class in code-unit order.
Digits == <<"0", "1", "2", "3", "4", "5", "6", "7", "8", "9">>
Upper ==
    <<"A", "B", "C", "D", "E", "F", "G", "H", "I", "J", "K", "L", "M",
      "N", "O", "P", "Q", "R", "S", "T", "U", "V", "W", "X", "Y", "Z">>
Lower ==
    <<"a", "b", "c", "d", "e", "f", "g", "h", "i", "j", "k", "l", "m",
      "n", "o", "p", "q", "r", "s", "t", "u", "v", "w", "x", "y", "z">>

IndexIn(seq, c) == CHOOSE i \in 1..Len(seq) : seq[i] = c
Range(seq) == {seq[i] : i \in 1..Len(seq)}

CharSet == Range(Digits) \cup Range(Upper) \cup Range(Lower) \cup {" ", ",", "-", ".", "_"}

\* The UTF-16 code unit of a character.
CodeOf == [c \in CharSet |->
              IF c \in Range(Digits) THEN 47 + IndexIn(Digits, c)
              ELSE IF c \in Range(Upper) THEN 64 + IndexIn(Upper, c)
              ELSE IF c \in Range(Lower) THEN 96 + IndexIn(Lower, c)
              ELSE IF c = " " THEN 32
              ELSE IF c = "," THEN 44
              ELSE IF c = "-" THEN 45
              ELSE IF c = "." THEN 46
              ELSE 95]

\* String.prototype.toLowerCase on one character: "A".."Z" (65..90) move by 32.
LowerChar == [c \in CharSet |->
                 IF c \in Range(Upper) THEN Lower[IndexIn(Upper, c)] ELSE c]

toLowerCase(str) == [i \in 1..Len(str) |-> LowerChar[str[i]]]

\* String.prototype.includes / Array.prototype.includes on sequences: does
\* `part` occur in `str` as a contiguous run.
StrIncludes(str, part) ==
    \E off \in 0..(Len(str) - Len(part)) :
        \A i \in 1..Len(part) : str[off + i] = part[i]

\* a < b for strings: lexicographic by code unit.
StrLess(x, y) ==
    \E k \in 1..(Len(y)) :
        /\ k <= Len(x) + 1
        /\ \A i \in 1..(k - 1) : x[i] = y[i]
        /\ (k = Len(x) + 1 \/ CodeOf[x[k]] < CodeOf[y[k]])

IsDigit(c) == c \in Range(Digits)

RECURSIVE DigitsValue(_)
DigitsValue(str) ==
    IF Len(str) = 0 THEN 0
    ELSE 10 * DigitsValue(SubSeq(str, 1, Len(str) - 1)) + (CodeOf[str[Len(str)]] - 48)

RECURSIVE DigitsOf(_)
DigitsOf(k) ==
    IF k < 10 THEN <<Digits[k + 1]>>
    ELSE DigitsOf(k \div 10) \o <<Digits[(k % 10) + 1]>>

RECURSIVE TrimLeft(_)
TrimLeft(str) ==
    IF Len(str) > 0 /\ str[1] = " " THEN TrimLeft(Tail(str)) ELSE str

RECURSIVE TrimRight(_)
TrimRight(str) ==
    IF Len(str) > 0 /\ str[Len(str)] = " "
       THEN TrimRight(SubSeq(str, 1, Len(str) - 1)) ELSE str

\* String.prototype.split(sep) for a one-character separator.
RECURSIVE Split(_, _)
Split(str, sep) ==
    IF \A i \in 1..Len(str) : str[i] # sep THEN <<str>>
    ELSE LET k == CHOOSE i \in 1..Len(str) :
                      str[i] = sep /\ \A j \in 1..(i - 1) : str[j] # sep
         IN <<SubSeq(str, 1, k - 1)>> \o Split(SubSeq(str, k + 1, Len(str)), sep)

----------------------------------------------------------------------------
(* JavaScript values.  t is the type tag; s the characters of a string;   *)
(* n a number (for a date: the UTC day number); m a date's milliseconds    *)
(* within its day; a the elements of an array.                             *)

Val(t, s, n, m, a) == [t |-> t, s |-> s, n |-> n, m |-> m, a |-> a]

Undef == Val("undefined", <<>>, 0, 0, <<>>)
NaNV == Val("nan", <<>>, 0, 0, <<>>)
Str(s) == Val("string", s, 0, 0, <<>>)
Num(n) == Val("number", <<>>, n, 0, <<>>)
Arr(a) == Val("array", <<>>, 0, 0, a)
\* A Date object: day is the UTC day number, ms the milliseconds within it.
DateV(day, ms) == Val("date", <<>>, day, ms, <<>>)
InvalidDate == Val("invaliddate", <<>>, 0, 0, <<>>)
\* A string holding an ISO timestamp (what a Date becomes in the URL).
Iso(day, ms) == Val("iso", <<>>, day, ms, <<>>)

MsPerDay == 24 * 60 * 60 * 1000

\* An object: a function from property names to values.
EmptyObj == [k \in {} |-> Undef]
Get(obj, key) == IF key \in DOMAIN obj THEN obj[key] ELSE Undef
\* { ...prev, ...partial }
Spread(prev, partial) ==
    [k \in (DOMAIN prev) \cup (DOMAIN partial) |->
        IF k \in DOMAIN partial THEN partial[k] ELSE prev[k]]
\* const { a, b, ...rest } = obj
Rest(obj, taken) == [k \in (DOMAIN obj) \ taken |-> obj[k]]

\* typeof v (a NaN is a number; arrays and dates are objects).
TypeOf(v) ==
    CASE v.t = "undefined" -> "undefined"
      [] v.t \in {"string", "iso"} -> "string"
      [] v.t \in {"number", "nan"} -> "number"
      [] OTHER -> "object"

\* ToBoolean
Truthy(v) ==
    CASE v.t = "undefined" -> FALSE
      [] v.t = "nan" -> FALSE
      [] v.t = "number" -> v.n # 0
      [] v.t = "string" -> Len(v.s) > 0
      [] OTHER -> TRUE

\* The characters of an ISO timestamp are not modelled: the model never
\* looks into one, the marker stands for them.
IsoChars == <<"I", "S", "O">>

\* ToString, as a template literal `${v}` applies it.
RECURSIVE ToStringChars(_)
RECURSIVE Join(_)
Join(a) ==
    IF Len(a) = 0 THEN <<>>
    ELSE IF Len(a) = 1 THEN (IF a[1].t = "undefined" THEN <<>> ELSE ToStringChars(a[1]))
    ELSE Join(SubSeq(a, 1, Len(a) - 1)) \o <<",">> \o
         (IF a[Len(a)].t = "undefined" THEN <<>> ELSE ToStringChars(a[Len(a)]))
ToStringChars(v) ==
    CASE v.t = "string" -> v.s
      [] v.t = "number" -> IF v.n < 0 THEN <<"-">> \o DigitsOf(-v.n) ELSE DigitsOf(v.n)
      [] v.t = "nan" -> <<"N", "a", "N">>
      [] v.t = "undefined" -> <<"u", "n", "d", "e", "f", "i", "n", "e", "d">>
      [] v.t = "array" -> Join(v.a)
      [] OTHER -> IsoChars

\* StringToNumber for the strings of the model: white space is trimmed, the
\* empty string is 0, an optionally signed run of digits is its value and
\* anything else is NaN.
StringToNumber(str) ==
    LET body == TrimRight(TrimLeft(str))
        neg == Len(body) > 0 /\ body[1] = "-"
        digs == IF neg THEN Tail(body) ELSE body
    IN IF Len(body) = 0 THEN Num(0)
       ELSE IF Len(digs) > 0 /\ \A i \in 1..Len(digs) : IsDigit(digs[i])
               THEN Num(IF neg THEN -DigitsValue(digs) ELSE DigitsValue(digs))
       ELSE NaNV

\* ToNumber, as unary plus applies it.
ToNumber(v) ==
    CASE v.t = "number" -> v
      [] v.t = "nan" -> NaNV
      [] v.t = "undefined" -> NaNV
      [] v.t = "string" -> StringToNumber(v.s)
      [] v.t = "array" -> StringToNumber(Join(v.a))
      [] OTHER -> NaNV

\* a * b
Times(x, y) ==
    LET nx == ToNumber(x)
        ny == ToNumber(y)
    IN IF nx.t = "nan" \/ ny.t = "nan" THEN NaNV ELSE Num(nx.n * ny.n)

\* a + b: string concatenation when either operand is (or becomes) a string.
Plus(x, y) ==
    IF TypeOf(x) = "string" \/ TypeOf(y) = "string" \/ TypeOf(x) = "object" \/ TypeOf(y) = "object"
       THEN Str(ToStringChars(x) \o ToStringChars(y))
    ELSE LET nx == ToNumber(x)
             ny == ToNumber(y)
         IN IF nx.t = "nan" \/ ny.t = "nan" THEN NaNV ELSE Num(nx.n + ny.n)

\* a === b.  Arrays and dates are objects: two of them held by two
\* different records are different objects whatever their contents.
StrictEquals(x, y) ==
    CASE x.t \in {"array", "date", "invaliddate"} -> FALSE
      [] x.t = "nan" -> FALSE
      [] OTHER -> x = y

\* a < b for two values of the same field: strings by code unit, arrays by
\* their joined strings, dates and numbers by value; FALSE when either side
\* is NaN or undefined.
LessThan(x, y) ==
    CASE x.t = "string" /\ y.t = "string" -> StrLess(x.s, y.s)
      [] x.t = "array" /\ y.t = "array" -> StrLess(Join(x.a), Join(y.a))
      [] x.t = "number" /\ y.t = "number" -> x.n < y.n
      [] x.t = "date" /\ y.t = "date" -> x.n < y.n \/ (x.n = y.n /\ x.m < y.m)
      [] OTHER -> FALSE

\* Array.prototype.includes (SameValueZero on the elements).
ArrIncludes(a, v) == \E i \in 1..Len(a) : a[i] = v

\* ToIntegerOrInfinity of a slice bound: NaN is 0.
ToInteger(v) == LET nv == ToNumber(v) IN IF nv.t = "nan" THEN 0 ELSE nv.n

Min(x, y) == IF x < y THEN x ELSE y
Max(x, y) == IF x > y THEN x ELSE y

\* Array.prototype.slice(start, end)
Slice(seq, start, end) ==
    LET len == Len(seq)
        rs == ToInteger(start)
        re == ToInteger(end)
        k == IF rs < 0 THEN Max(len + rs, 0) ELSE Min(rs, len)
        final == IF re < 0 THEN Max(len + re, 0) ELSE Min(re, len)
    IN SubSeq(seq, k + 1, final)

----------------------------------------------------------------------------
(* The strings of the program.                                             *)

cId == <<"i", "d">>
cLabel == <<"l", "a", "b", "e", "l">>
cTitle == <<"t", "i", "t", "l", "e">>
cPriority == <<"p", "r", "i", "o", "r", "i", "t", "y">>
cStatus == <<"s", "t", "a", "t", "u", "s">>
cName == <<"n", "a", "m", "e">>
cEmail == <<"e", "m", "a", "i", "l">>
cCompany == <<"c", "o", "m", "p", "a", "n", "y">>
cRole == <<"r", "o", "l", "e">>
cBirthday == <<"b", "i", "r", "t", "h", "d", "a", "y">>
cAsc == <<"a", "s", "c">>
cDesc == <<"d", "e", "s", "c">>
cDot == <<".">>

cAdmin == <<"A", "D", "M", "I", "N">>
cOperator == <<"O", "P", "E", "R", "A", "T", "O", "R">>
cSelected == <<"S", "E", "L", "E", "C", "T", "E", "D">>
cNotSelected == <<"N", "O", "T", "_", "S", "E", "L", "E", "C", "T", "E", "D">>
cDone == <<"d", "o", "n", "e">>
cTodo == <<"t", "o", "d", "o">>
cLow == <<"l", "o", "w">>
cHigh == <<"h", "i", "g", "h">>

\* The characters of each property name of a record.
KeyChars ==
    [k \in {"id", "label", "title", "priority", "status",
            "name", "email", "company", "role", "birthday"} |->
        CASE k = "id" -> cId
          [] k = "label" -> cLabel
          [] k = "title" -> cTitle
          [] k = "priority" -> cPriority
          [] k = "status" -> cStatus
          [] k = "name" -> cName
          [] k = "email" -> cEmail
          [] k = "company" -> cCompany
          [] k = "role" -> cRole
          [] OTHER -> cBirthday]

\* obj[field] for a property name computed at run time (a string).
GetProp(obj, field) ==
    IF \E k \in DOMAIN obj : KeyChars[k] = field
       THEN obj[CHOOSE k \in DOMAIN obj : KeyChars[k] = field]
       ELSE Undef

----------------------------------------------------------------------------
(* The record collections.  makeData draws each record's fields at random *)
(* (faker); the model draws each record from a few profiles, so that      *)
(* records with equal and with different field values occur.              *)

TaskProfiles ==
    << [label |-> Str(<<"a", "b">>), title |-> Str(<<"a", "b">>),
        priority |-> Arr(<<Str(cLow)>>), status |-> Arr(<<Str(cDone)>>)],
       [label |-> Str(<<"b">>), title |-> Str(<<"B">>),
        priority |-> Arr(<<Str(cLow)>>), status |-> Arr(<<Str(cTodo)>>)],
       [label |-> Str(<<"a", "b">>), title |-> Str(<<"A", "b">>),
        priority |-> Arr(<<Str(cHigh)>>), status |-> Arr(<<Str(cTodo)>>)] >>

UserProfiles ==
    << [name |-> Str(<<"A", "n", "n">>), email |-> Str(<<"a">>), company |-> Str(<<"c">>),
        role |-> Arr(<<Str(cAdmin)>>), birthday |-> DateV(1, 0)],
       [name |-> Str(<<"b", "o">>), email |-> Str(<<"b">>), company |-> Str(<<"c">>),
        role |-> Arr(<<Str(cOperator)>>), birthday |-> DateV(1, 5)],
       [name |-> Str(<<"a", "n", "n">>), email |-> Str(<<"a">>), company |-> Str(<<"d">>),
        role |-> Arr(<<Str(cAdmin)>>), birthday |-> DateV(2, 0)] >>

\* makeData(amount) of api/task.ts, the random draws given by `picks`.
makeDataTasks(amount, picks) ==
    [index \in 1..amount |->
        [id |-> Num(index),
         label |-> TaskProfiles[picks[index]].label,
         title |-> TaskProfiles[picks[index]].title,
         priority |-> TaskProfiles[picks[index]].priority,
         status |-> TaskProfiles[picks[index]].status]]

\* makeData(amount) of api/user.ts, the random draws given by `picks`.
makeDataUsers(amount, picks) ==
    [index \in 1..amount |->
        [id |-> Num(index),
         name |-> UserProfiles[picks[index]].name,
         email |-> UserProfiles[picks[index]].email,
         company |-> UserProfiles[picks[index]].company,
         role |-> UserProfiles[picks[index]].role,
         birthday |-> UserProfiles[picks[index]].birthday]]

----------------------------------------------------------------------------
(* Array.prototype.sort with the comparator of fetchTasks / fetchUsers.    *)

\* Variant of compare the code does not use: 'asc' sorts downwards.
compareAscDownwards(a, b, field, order) ==
    LET aValue == GetProp(a, field)
        bValue == GetProp(b, field)
    IN IF StrictEquals(aValue, bValue) THEN 0
       ELSE IF order = Str(cAsc) THEN (IF LessThan(aValue, bValue) THEN 1 ELSE -1)
       ELSE (IF LessThan(bValue, aValue) THEN 1 ELSE -1)

\* The comparator: (a, b) => ... with [field, order] = sortBy.split('.').
compare(a, b, field, order) ==
    LET aValue == GetProp(a, field)
        bValue == GetProp(b, field)
    IN IF StrictEquals(aValue, bValue) THEN 0
       ELSE IF order = Str(cAsc) THEN (IF LessThan(bValue, aValue) THEN 1 ELSE -1)
       ELSE (IF LessThan(aValue, bValue) THEN 1 ELSE -1)

\* ECMAScript's consistency of a comparator on the elements of seq: a pair
\* compares equal in both directions or opposite in the two directions.
ConsistentComparator(seq, field, order) ==
    \A i, j \in 1..Len(seq) :
        i # j =>
            LET ab == compare(seq[i], seq[j], field, order)
                ba == compare(seq[j], seq[i], field, order)
            IN (ab = 0 /\ ba = 0) \/ (ab < 0 /\ ba > 0) \/ (ab > 0 /\ ba < 0)

RECURSIVE InsertSorted(_, _, _, _)
InsertSorted(acc, x, field, order) ==
    IF Len(acc) = 0 THEN <<x>>
    ELSE IF compare(acc[Len(acc)], x, field, order) > 0
            THEN InsertSorted(SubSeq(acc, 1, Len(acc) - 1), x, field, order) \o <<acc[Len(acc)]>>
    ELSE Append(acc, x)

\* The stable sort ECMAScript requires of a consistent comparator.
RECURSIVE StableSort(_, _, _)
StableSort(seq, field, order) ==
    IF Len(seq) = 0 THEN <<>>
    ELSE InsertSorted(StableSort(SubSeq(seq, 1, Len(seq) - 1), field, order),
                      seq[Len(seq)], field, order)

Reorderings(seq) ==
    {[i \in 1..Len(seq) |-> seq[f[i]]] :
        f \in {g \in [1..Len(seq) -> 1..Len(seq)] :
                  \A i, j \in 1..Len(seq) : i # j => g[i] # g[j]}}

\* What requestedData.sort(comparator) can leave in requestedData: the
\* stable sort when the comparator is consistent; with an inconsistent
\* comparator the order is implementation-defined (any permutation).
SortOutcomes(seq, field, order) ==
    IF ConsistentComparator(seq, field, order)
       THEN {StableSort(seq, field, order)}
       ELSE Reorderings(seq)

\* sortBy.split('.') raises a TypeError when sortBy is truthy and not a string.
SplitThrows(sortBy) == Truthy(sortBy) /\ TypeOf(sortBy) # "string"

\* if (sortBy) { const [field, order] = sortBy.split('.'); requestedData.sort(...) }
SortStep(requestedData, sortBy) ==
    IF ~Truthy(sortBy) THEN {requestedData}
    ELSE LET parts == Split(ToStringChars(sortBy), ".")
             field == parts[1]
             order == IF Len(parts) >= 2 THEN Str(parts[2]) ELSE Undef
         IN SortOutcomes(requestedData, field, order)

----------------------------------------------------------------------------
(* src/api/task.ts                                                         *)

DEFAULT_PAGE == 0
DEFAULT_PAGE_INDEX == 0
DEFAULT_PAGE_SIZE == 10

\* Variant of taskKeyPasses the code does not use: the record must hold every
\* value of the filter array (match-all).
taskKeyPassesMatchAll(task, key, filter) ==
    IF filter = Undef \/ filter = Str(<<>>) THEN TRUE
    ELSE LET value == Get(task, key)
         IN IF key = "status" \/ key = "priority"
               THEN IF filter.t = "array"
                       THEN IF Len(filter.a) = 0 THEN TRUE
                            ELSE IF value.t = "array"
                                    THEN \A i \in 1..Len(filter.a) : ArrIncludes(value.a, filter.a[i])
                            ELSE ArrIncludes(filter.a, value)
                    ELSE FALSE
            ELSE IF TypeOf(value) = "string"
                    THEN StrIncludes(toLowerCase(ToStringChars(value)),
                                     toLowerCase(ToStringChars(filter)))
            ELSE IF TypeOf(value) = "number"
                    THEN value = ToNumber(filter)
            ELSE TRUE

\* Variant of taskKeyPasses the code does not use: a filter on a numeric
\* field that does not coerce to a number is not applied.
taskKeyPassesNaNIgnored(task, key, filter) ==
    IF filter = Undef \/ filter = Str(<<>>) THEN TRUE
    ELSE LET value == Get(task, key)
         IN IF key = "status" \/ key = "priority"
               THEN IF filter.t = "array"
                       THEN IF Len(filter.a) = 0 THEN TRUE
                            ELSE IF value.t = "array"
                                    THEN \E i \in 1..Len(value.a) : ArrIncludes(filter.a, value.a[i])
                            ELSE ArrIncludes(filter.a, value)
                    ELSE FALSE
            ELSE IF TypeOf(value) = "string"
                    THEN StrIncludes(toLowerCase(ToStringChars(value)),
                                     toLowerCase(ToStringChars(filter)))
            ELSE IF TypeOf(value) = "number"
                    THEN ToNumber(filter) = NaNV \/ value = ToNumber(filter)
            ELSE TRUE

\* Variant of taskKeyPasses the code does not use: a tag filter that is not
\* an array is matched as one value.
taskKeyPassesOneValue(task, key, filter) ==
    IF filter = Undef \/ filter = Str(<<>>) THEN TRUE
    ELSE LET value == Get(task, key)
         IN IF key = "status" \/ key = "priority"
               THEN IF filter.t = "array"
                       THEN IF Len(filter.a) = 0 THEN TRUE
                            ELSE IF value.t = "array"
                                    THEN \E i \in 1..Len(value.a) : ArrIncludes(filter.a, value.a[i])
                            ELSE ArrIncludes(filter.a, value)
                    ELSE IF value.t = "array" THEN ArrIncludes(value.a, filter)
                    ELSE value = filter
            ELSE IF TypeOf(value) = "string"
                    THEN StrIncludes(toLowerCase(ToStringChars(value)),
                                     toLowerCase(ToStringChars(filter)))
            ELSE IF TypeOf(value) = "number"
                    THEN value = ToNumber(filter)
            ELSE TRUE

\* The body of Object.keys(filters).every((key) => ...) for one key.
taskKeyPasses(task, key, filter) ==
    IF filter = Undef \/ filter = Str(<<>>) THEN TRUE
    ELSE LET value == Get(task, key)
         IN IF key = "status" \/ key = "priority"
               THEN IF filter.t = "array"
                       THEN IF Len(filter.a) = 0 THEN TRUE
                            ELSE IF value.t = "array"
                                    THEN \E i \in 1..Len(value.a) : ArrIncludes(filter.a, value.a[i])
                            ELSE ArrIncludes(filter.a, value)
                    ELSE FALSE
            ELSE IF TypeOf(value) = "string"
                    THEN StrIncludes(toLowerCase(ToStringChars(value)),
                                     toLowerCase(ToStringChars(filter)))
            ELSE IF TypeOf(value) = "number"
                    THEN value = ToNumber(filter)
            ELSE TRUE

\* Variant of taskPasses with some in place of every (the code uses every).
taskPassesSome(task, filters) ==
    \E key \in DOMAIN filters : taskKeyPasses(task, key, filters[key])

\* The callback of requestedData.filter((task) => ...).
taskPasses(task, filters) ==
    \A key \in DOMAIN filters : taskKeyPasses(task, key, filters[key])

\* data.slice() with requestedData bound to the array `data` itself: what
\* requestedData = data would be (the code does not do this).
sliceCopyShared(array) == [elements |-> array, shared |-> TRUE]

\* data.slice() / fakeUserData.slice(): a new array object holding the elements
\* of `array`.  `shared` tells whether a write to the result (sort works in
\* place) is a write to `array`.
sliceCopy(array) == [elements |-> array, shared |-> FALSE]

\* The value of every local of a call, so that the claims can read them.
Outcome(fn, threw, requestedData, filteredData, result, rowCount) ==
    [fn |-> fn, threw |-> threw, requestedData |-> requestedData,
     filteredData |-> filteredData, result |-> result, rowCount |-> rowCount]

Thrown(fn) == Outcome(fn, TRUE, <<>>, <<>>, <<>>, 0)
NotFetched == Outcome("none", FALSE, <<>>, <<>>, <<>>, 0)

\* Variants of Paginate the code does not use: pages counted from 1, and rowCount taken from the page.
PaginateFromOne(fn, requestedData, filteredData, pageIndex, pageSize) ==
    Outcome(fn, FALSE, requestedData, filteredData,
            Slice(filteredData, Times(Plus(pageIndex, Num(-1)), pageSize),
                  Times(pageIndex, pageSize)),
            Len(filteredData))
PaginateCountsPage(fn, requestedData, filteredData, pageIndex, pageSize) ==
    Outcome(fn, FALSE, requestedData, filteredData,
            Slice(filteredData, Times(pageIndex, pageSize),
                  Times(Plus(pageIndex, Num(1)), pageSize)),
            Len(Slice(filteredData, Times(pageIndex, pageSize),
                      Times(Plus(pageIndex, Num(1)), pageSize))))

\* The return statement of fetchTasks and of fetchUsers.
Paginate(fn, requestedData, filteredData, pageIndex, pageSize) ==
    Outcome(fn, FALSE, requestedData, filteredData,
            Slice(filteredData, Times(pageIndex, pageSize),
                  Times(Plus(pageIndex, Num(1)), pageSize)),
            Len(filteredData))

\* Variant of destructured the code does not use: no default value.
destructuredNoDefault(obj, key, default) == Get(obj, key)

\* const { key = default } = obj: the default is taken when the property
\* is undefined.
destructured(obj, key, default) ==
    IF Get(obj, key) = Undef THEN default ELSE obj[key]

\* fetchTasks(filtersAndPagination): every outcome the call can have.
fetchTasks(filtersAndPagination) ==
    LET pageIndex == destructured(filtersAndPagination, "pageIndex", Num(DEFAULT_PAGE))
        pageSize == destructured(filtersAndPagination, "pageSize", Num(DEFAULT_PAGE_SIZE))
        sortBy == Get(filtersAndPagination, "sortBy")
        filters == Rest(filtersAndPagination, {"pageIndex", "pageSize", "sortBy"})
    IN IF SplitThrows(sortBy) THEN {Thrown("fetchTasks")}
       ELSE {Paginate("fetchTasks", requestedData,
                      SelectSeq(requestedData, LAMBDA task : taskPasses(task, filters)),
                      pageIndex, pageSize) :
                requestedData \in SortStep(sliceCopy(data).elements, sortBy)}

\* What a call of fetchTasks leaves in the module-level array `data`:
\* requestedData.sort works in place, on the array data.slice() returned.
dataAfterFetchTasks(filtersAndPagination, outcome) ==
    IF sliceCopy(data).shared /\ ~outcome.threw THEN outcome.requestedData ELSE data

----------------------------------------------------------------------------
(* api/user.ts                                                             *)

\* x.includes(v) raises a TypeError when x has no includes method.
HasIncludes(x) == x.t = "array" \/ TypeOf(x) = "string"

\* x.includes(v) for an array or a string x.
Includes(x, v) ==
    IF x.t = "array" THEN ArrIncludes(x.a, v)
    ELSE StrIncludes(ToStringChars(x), ToStringChars(v))

\* Does the callback of the selection filter raise for this user.
selectionThrows(user, selection, selectedIds) ==
    \/ ~HasIncludes(selection)
    \/ /\ Truthy(user.id)
       /\ selectedIds # Undef
       /\ ~HasIncludes(selectedIds)

\* Variant of selectionPasses the code does not use: NOT_SELECTED keeps the
\* selected users as well.
selectionPassesNotNegated(user, selection, selectedIds) ==
    LET isSelected == Includes(selection, Str(cSelected))
        isNotSelected == Includes(selection, Str(cNotSelected))
        isUserSelected == /\ Truthy(user.id)
                          /\ selectedIds # Undef
                          /\ Includes(selectedIds, user.id)
    IN IF selection.t = "array" /\ Len(selection.a) = 0 THEN TRUE
       ELSE IF isSelected /\ isUserSelected THEN TRUE
       ELSE IF isNotSelected THEN TRUE
       ELSE FALSE

\* The callback of the selection filter: requestedData.filter((user) => ...).
selectionPasses(user, selection, selectedIds) ==
    LET isSelected == Includes(selection, Str(cSelected))
        isNotSelected == Includes(selection, Str(cNotSelected))
        isUserSelected == /\ Truthy(user.id)
                          /\ selectedIds # Undef
                          /\ Includes(selectedIds, user.id)
    IN IF selection.t = "array" /\ Len(selection.a) = 0 THEN TRUE
       ELSE IF isSelected /\ isUserSelected THEN TRUE
       ELSE IF isNotSelected /\ ~isUserSelected THEN TRUE
       ELSE FALSE

\* new Date(v): an ISO timestamp or a number of milliseconds gives a date,
\* the other values of the model give an Invalid Date.
NewDate(v) ==
    CASE v.t = "iso" -> DateV(v.n, v.m)
      [] v.t = "date" -> DateV(v.n, v.m)
      [] v.t = "number" -> DateV(v.n \div MsPerDay, v.n % MsPerDay)
      [] OTHER -> InvalidDate

\* date.setUTCHours(h, min, s, ms)
setUTCHours(date, h, min, s, ms) ==
    IF date.t = "date" THEN DateV(date.n, ((h * 60 + min) * 60 + s) * 1000 + ms)
    ELSE date

\* Variant of dateRangePasses the code does not use: the bounds are compared
\* as the instants they are, without setUTCHours.
dateRangePassesInstants(user, from, to) ==
    LET birthday == setUTCHours(NewDate(user.birthday), 0, 0, 0, 0)
    IN IF Truthy(from) /\ Truthy(to)
          THEN ~(LessThan(birthday, NewDate(from)) \/ LessThan(NewDate(to), birthday))
       ELSE IF Truthy(from) THEN ~LessThan(birthday, NewDate(from))
       ELSE IF Truthy(to) THEN ~LessThan(NewDate(to), birthday)
       ELSE TRUE

\* The date-range part of the callback: FALSE when the user is rejected.
dateRangePasses(user, from, to) ==
    LET birthday == setUTCHours(NewDate(user.birthday), 0, 0, 0, 0)
    IN IF Truthy(from) /\ Truthy(to)
          THEN LET fromDate == setUTCHours(NewDate(from), 0, 0, 0, 0)
                   toDate == setUTCHours(NewDate(to), 23, 59, 59, 999)
               IN ~(LessThan(birthday, fromDate) \/ LessThan(toDate, birthday))
       ELSE IF Truthy(from)
          THEN ~LessThan(birthday, setUTCHours(NewDate(from), 0, 0, 0, 0))
       ELSE IF Truthy(to)
          THEN ~LessThan(setUTCHours(NewDate(to), 23, 59, 59, 999), birthday)
       ELSE TRUE

\* The body of Object.keys(filters).every((key) => ...) for one key.
userKeyPasses(user, key, filter) ==
    IF filter = Undef \/ filter = Str(<<>>) THEN TRUE
    ELSE LET value == Get(user, key)
         IN IF key = "role"
               THEN IF filter.t = "array"
                       THEN IF Len(filter.a) = 0 THEN TRUE
                            ELSE IF value.t = "array"
                                    THEN \E i \in 1..Len(value.a) : ArrIncludes(filter.a, value.a[i])
                            ELSE ArrIncludes(filter.a, value)
                    ELSE FALSE
            ELSE IF TypeOf(value) = "string"
                    THEN StrIncludes(toLowerCase(ToStringChars(value)),
                                     toLowerCase(ToStringChars(filter)))
            ELSE IF TypeOf(value) = "number"
                    THEN value = ToNumber(filter)
            ELSE TRUE

\* The callback of requestedData.filter((user) => ...).
userPasses(user, from, to, filters) ==
    /\ dateRangePasses(user, from, to)
    /\ \A key \in DOMAIN filters : userKeyPasses(user, key, filters[key])

\* fetchUsers(filtersAndPagination): every outcome the call can have.
fetchUsers(filtersAndPagination) ==
    LET pageIndex == destructured(filtersAndPagination, "pageIndex", Num(DEFAULT_PAGE_INDEX))
        pageSize == destructured(filtersAndPagination, "pageSize", Num(DEFAULT_PAGE_SIZE))
        sortBy == Get(filtersAndPagination, "sortBy")
        selection == Get(filtersAndPagination, "selection")
        selectedIds == Get(filtersAndPagination, "selectedIds")
        from == Get(filtersAndPagination, "from")
        to == Get(filtersAndPagination, "to")
        filters == Rest(filtersAndPagination,
                        {"pageIndex", "pageSize", "sortBy", "selection", "selectedIds", "from", "to"})
        selected == IF Truthy(selection)
                       THEN SelectSeq(sliceCopy(fakeUserData).elements,
                                      LAMBDA user : selectionPasses(user, selection, selectedIds))
                       ELSE sliceCopy(fakeUserData).elements
    IN IF /\ Truthy(selection)
          /\ \E i \in 1..Len(fakeUserData) :
                 selectionThrows(fakeUserData[i], selection, selectedIds)
          THEN {Thrown("fetchUsers")}
       ELSE IF SplitThrows(sortBy) THEN {Thrown("fetchUsers")}
       ELSE {Paginate("fetchUsers", requestedData,
                      SelectSeq(requestedData, LAMBDA user : userPasses(user, from, to, filters)),
                      pageIndex, pageSize) :
                requestedData \in SortStep(selected, sortBy)}

\* What a call of fetchUsers leaves in the module-level array fakeUserData:
\* requestedData.sort works in place, on the array fakeUserData.slice()
\* returned or on the new array the selection filter returned.
fakeUserDataAfterFetchUsers(filtersAndPagination, outcome) ==
    IF /\ sliceCopy(fakeUserData).shared
       /\ ~outcome.threw
       /\ ~Truthy(Get(filtersAndPagination, "selection"))
       THEN outcome.requestedData ELSE fakeUserData

----------------------------------------------------------------------------
(* services/utils/cleanEmptyParams.ts and services/hooks/useFilters.ts     *)

\* Variant of cleanEmptyParams the code does not use: the empty string is not removed.
cleanEmptyParamsKeepsEmptyString(s) ==
    [key \in {k \in DOMAIN s :
                 /\ ~(s[k] = Undef \/ s[k].t = "nan")
                 /\ ~(k = "pageIndex" /\ s[k] = Num(DEFAULT_PAGE_INDEX))
                 /\ ~(k = "pageSize" /\ s[k] = Num(DEFAULT_PAGE_SIZE))} |-> s[key]]

cleanEmptyParams(s) ==
    [key \in {k \in DOMAIN s :
                 /\ ~(s[k] = Undef \/ s[k] = Str(<<>>) \/ s[k].t = "nan")
                 /\ ~(k = "pageIndex" /\ s[k] = Num(DEFAULT_PAGE_INDEX))
                 /\ ~(k = "pageSize" /\ s[k] = Num(DEFAULT_PAGE_SIZE))} |-> s[key]]

\* Variants of setFiltersSearch the code does not use: prev left out of the
\* spread, the spread written the other way round, and the default page index
\* and size looked up in prev instead of the merge.
setFiltersSearchPartialOnly(prev, partialFilters) == cleanEmptyParams(partialFilters)
setFiltersSearchPrevWins(prev, partialFilters) ==
    cleanEmptyParams(Spread(partialFilters, prev))
setFiltersSearchDefaultsOfPrev(prev, partialFilters) ==
    LET merged == Spread(prev, partialFilters)
    IN [key \in {k \in DOMAIN merged :
                    /\ ~(merged[k] = Undef \/ merged[k] = Str(<<>>) \/ merged[k].t = "nan")
                    /\ ~(k = "pageIndex" /\ Get(prev, k) = Num(DEFAULT_PAGE_INDEX))
                    /\ ~(k = "pageSize" /\ Get(prev, k) = Num(DEFAULT_PAGE_SIZE))} |->
           merged[key]]

\* The search updater of setFilters: (prev) => cleanEmptyParams({ ...prev, ...partialFilters })
setFiltersSearch(prev, partialFilters) == cleanEmptyParams(Spread(prev, partialFilters))

\* The search option of a navigate call: `true` or a search object.
SearchTrue == [kind |-> "true", object |-> EmptyObj]
SearchObject(obj) == [kind |-> "object", object |-> obj]

\* navigate({ search }): the router's resolution of the search option.
\* `true` keeps the current search; an object replaces it.
NavigateSearch(current, option) ==
    IF option.kind = "true" THEN current ELSE option.object

\* The search option resetFilters passes to navigate: `search: true` in
\* services/hooks/useFilters.ts, `search: {}` in the hook's other version.
resetFiltersOption == SearchTrue
resetFiltersEmptyOption == SearchObject(EmptyObj)

Op(name, partial, prev) == [op |-> name, partial |-> partial, prev |-> prev]
NoOp == Op("none", EmptyObj, EmptyObj)

----------------------------------------------------------------------------
(* The inputs of the model.                                                *)

Obj1(key, value) == [k \in {key} |-> value]
Both(objs1, objs2) == {Spread(x, y) : x \in objs1, y \in objs2}

\* The page as first rendered: the components hold the URL's search object
\* and no setFilters call has been made.
FirstRender == renderedFilters = search /\ calls = <<>>

\* No DebouncedInput is mounted and none has been.
NoInput ==
    /\ instance = 0
    /\ mounted = FALSE
    /\ inputType = "text"
    /\ inputText = <<>>
    /\ inputValue = Str(<<>>)
    /\ timers = {}
    /\ forwarded = <<>>
    /\ idle = 0
    /\ cancelled = {}

\* The random draws of makeData: one profile per record.
Picks == [1..MaxRecords -> 1..Len(TaskProfiles)]

TextOptions(key) ==
    {EmptyObj, Obj1(key, Str(<<"a">>)), Obj1(key, Str(<<"A", "B">>)), Obj1(key, Str(<<>>))}
TagOptions(key, x, y) ==
    {EmptyObj, Obj1(key, Arr(<<>>)), Obj1(key, Arr(<<Str(x)>>)), Obj1(key, Arr(<<Str(y)>>)),
     Obj1(key, Arr(<<Str(x), Str(y)>>)), Obj1(key, Str(x))}
IdOptions ==
    {EmptyObj, Obj1("id", Num(1)), Obj1("id", Str(<<"2">>)), Obj1("id", Arr(<<>>))}
SortOptions ==
    {Obj1("sortBy", Str(f \o cDot \o o)) :
        f \in {cTitle, cId, cStatus, cName, cRole, cBirthday}, o \in {cAsc, cDesc}}
    \cup {Obj1("sortBy", Str(cTitle)), Obj1("sortBy", Num(5)), Obj1("sortBy", Str(<<>>))}
PageOptions ==
    {Spread(Obj1("pageIndex", Num(i)), Obj1("pageSize", Num(s))) :
        i \in 0..MaxPage, s \in 1..2}
    \cup {Obj1("pageIndex", Num(1)), Obj1("pageSize", Num(2)),
          Spread(Obj1("pageIndex", Num(-1)), Obj1("pageSize", Num(2))),
          Spread(Obj1("pageIndex", Str(<<"1">>)), Obj1("pageSize", Num(1)))}
SelectionOptions ==
    Both({Obj1("selection", Arr(<<>>)), Obj1("selection", Arr(<<Str(cSelected)>>)),
          Obj1("selection", Arr(<<Str(cNotSelected)>>)),
          Obj1("selection", Arr(<<Str(cSelected), Str(cNotSelected)>>)),
          Obj1("selection", Num(1))},
         {EmptyObj, Obj1("selectedIds", Arr(<<Num(1)>>)), Obj1("selectedIds", Num(1)),
          Obj1("selectedIds", Arr(<<Num(2), Num(3)>>))})
DateOptions ==
    Both({EmptyObj, Obj1("from", Iso(1, 7)), Obj1("from", Iso(2, 0))},
         {EmptyObj, Obj1("to", Iso(1, 0)), Obj1("to", Iso(2, 0))})

\* The search objects a URL of the table routes is opened with.
Queries ==
    Both(Both(TextOptions("title"), TagOptions("status", cDone, cTodo)), IdOptions)
    \cup Both(Both(TextOptions("name"), TagOptions("role", cAdmin, cOperator)), IdOptions)
    \cup Both(SortOptions,
              {EmptyObj, Obj1("status", Arr(<<Str(cTodo)>>)),
               Spread(Obj1("pageIndex", Num(1)), Obj1("pageSize", Num(1))),
               Spread(Obj1("pageIndex", Num(MaxPage)), Obj1("pageSize", Num(1)))})
    \cup Both(PageOptions,
              {EmptyObj, Obj1("status", Arr(<<Str(cTodo)>>)), Obj1("role", Arr(<<Str(cAdmin)>>))})
    \cup SelectionOptions
    \cup DateOptions

----------------------------------------------------------------------------
(* The query engine: a route is opened with a URL and its query runs.     *)

InitQuery ==
    /\ \E picks \in Picks :
          /\ data = makeDataTasks(MaxRecords, picks)
          /\ fakeUserData = makeDataUsers(MaxRecords, picks)
    /\ search \in Queries
    /\ last = NoOp
    /\ fetched = NotFetched
    /\ FirstRender
    /\ NoInput

\* routes: queryFn: () => fetchTasks(filters)
FetchTasks ==
    /\ \E outcome \in fetchTasks(search) :
           /\ fetched' = outcome
           /\ data' = dataAfterFetchTasks(search, outcome)
    /\ UNCHANGED <<fakeUserData, search, last, tableVars, inputVars>>

\* routes: queryFn: () => fetchUsers(filters)
FetchUsers ==
    /\ \E outcome \in fetchUsers(search) :
           /\ fetched' = outcome
           /\ fakeUserData' = fakeUserDataAfterFetchUsers(search, outcome)
    /\ UNCHANGED <<data, search, last, tableVars, inputVars>>

NextQuery == FetchTasks \/ FetchUsers

SpecQuery == InitQuery /\ [][NextQuery]_vars

\* URLs whose id filter is no numeral.
NaNIdQueries ==
    Both(Both(TextOptions("title"), TagOptions("status", cDone, cTodo)),
         {Obj1("id", Str(<<"a">>))})
    \cup Both(Both(TextOptions("name"), TagOptions("role", cAdmin, cOperator)),
              {Obj1("id", Str(<<"a">>))})

\* The same routes over one collection, opened with every URL of Queries
\* and of NaNIdQueries.
InitQueryOfCollection ==
    /\ data = makeDataTasks(MaxRecords, [i \in 1..MaxRecords |-> ((i - 1) % Len(TaskProfiles)) + 1])
    /\ fakeUserData = makeDataUsers(MaxRecords, [i \in 1..MaxRecords |-> ((i - 1) % Len(TaskProfiles)) + 1])
    /\ search \in Queries \cup NaNIdQueries
    /\ last = NoOp
    /\ fetched = NotFetched
    /\ FirstRender
    /\ NoInput

SpecQueryOfCollection == InitQueryOfCollection /\ [][NextQuery]_vars

----------------------------------------------------------------------------
(* The filter state: a route is opened with a URL and the components call *)
(* setFilters and resetFilters.                                            *)

cAnn == <<"a", "n", "n">>
cBo == <<"b", "o">>
OtherPageSize == 20

\* The search objects a URL can hold on route entry: a URL typed by hand can
\* hold an empty string and the default page index and page size.
UrlStates ==
    Both(Both({EmptyObj, Obj1("name", Str(<<>>)), Obj1("name", Str(cAnn))},
              {EmptyObj, Obj1("role", Arr(<<>>)), Obj1("role", Arr(<<Str(cAdmin)>>))}),
         Both({EmptyObj, Obj1("pageIndex", Num(DEFAULT_PAGE_INDEX)), Obj1("pageIndex", Num(1))},
              {EmptyObj, Obj1("pageSize", Num(DEFAULT_PAGE_SIZE)),
               Obj1("pageSize", Num(OtherPageSize))}))

NamePartials ==
    {EmptyObj, Obj1("name", Undef), Obj1("name", Str(<<>>)),
     Obj1("name", Str(cAnn)), Obj1("name", Str(cBo))}
RolePartials ==
    {EmptyObj, Obj1("role", Undef), Obj1("role", Arr(<<>>)), Obj1("role", Arr(<<Str(cAdmin)>>))}
PageIndexPartials ==
    {EmptyObj, Obj1("pageIndex", NaNV)} \cup {Obj1("pageIndex", Num(i)) : i \in 0..MaxPage}
PageSizePartials ==
    {EmptyObj, Obj1("pageSize", Num(DEFAULT_PAGE_SIZE)), Obj1("pageSize", Num(OtherPageSize))}

\* The partial updates the components pass to setFilters.
Partials ==
    Both(NamePartials, RolePartials) \cup Both(PageIndexPartials, PageSizePartials)
    \cup Both(NamePartials, PageIndexPartials) \cup Both(RolePartials, PageSizePartials)

Init ==
    /\ data = makeDataTasks(MaxRecords, [i \in 1..MaxRecords |-> ((i - 1) % Len(TaskProfiles)) + 1])
    /\ fakeUserData =
           makeDataUsers(MaxRecords, [i \in 1..MaxRecords |-> ((i - 1) % Len(UserProfiles)) + 1])
    /\ search \in UrlStates
    /\ last = NoOp
    /\ fetched = NotFetched
    /\ FirstRender
    /\ NoInput

\* setFilters(partialFilters), and the render that follows the navigation
SetFilters ==
    \E partialFilters \in Partials :
        /\ search' = NavigateSearch(search,
                                    SearchObject(setFiltersSearch(search, partialFilters)))
        /\ last' = Op("setFilters", partialFilters, search)
        /\ renderedFilters' = search'
        /\ UNCHANGED <<data, fakeUserData, fetched, calls, inputVars>>

\* resetFilters() of services/hooks/useFilters.ts
ResetFilters ==
    /\ search' = NavigateSearch(search, resetFiltersOption)
    /\ last' = Op("resetFilters", EmptyObj, search)
    /\ renderedFilters' = search'
    /\ UNCHANGED <<data, fakeUserData, fetched, calls, inputVars>>

\* resetFilters() of the hook's other version
ResetFiltersEmpty ==
    /\ search' = NavigateSearch(search, resetFiltersEmptyOption)
    /\ last' = Op("resetFiltersEmpty", EmptyObj, search)
    /\ renderedFilters' = search'
    /\ UNCHANGED <<data, fakeUserData, fetched, calls, inputVars>>

Next == SetFilters \/ ResetFilters \/ ResetFiltersEmpty

Spec == Init /\ [][Next]_vars

----------------------------------------------------------------------------
(* The table page: the components of a route, rendered with `filters`,    *)
(* call setFilters; the router navigates; the page renders again with the *)
(* new search and its query runs.                                          *)

\* Variant of setFilters the code does not use: the updater spreads the
\* filters of the render, cleanEmptyParams({ ...filters, ...partialFilters }).
setFiltersOfRender(current, rendered, partialFilters) ==
    NavigateSearch(current, SearchObject(setFiltersSearch(rendered, partialFilters)))

\* setFilters(partialFilters) called by a component rendered with the filters
\* `rendered`, the router's search being `current`: navigate({ search: (prev)
\* => ... }), and the router calls the updater with its current search.
setFilters(current, rendered, partialFilters) ==
    NavigateSearch(current, SearchObject(setFiltersSearch(current, partialFilters)))

\* The route of the page, told by its query function, and the columns its
\* toolbar filters: a text input and a faceted filter.
TextKey(fn) == IF fn = "fetchTasks" THEN "title" ELSE "name"
FacetKey(fn) == IF fn = "fetchTasks" THEN "status" ELSE "role"

\* DebounceFilterInput: onChange={(value) => setFilters({ [filterKey]: value })}
TextFilterPartials(fn) ==
    {Obj1(TextKey(fn), v) : v \in {Str(<<>>), Str(<<"a">>), Str(cBo)}}

\* DataTableFacetedFilter: setFilters({ [column.id]: filterValues.length ?
\* filterValues : undefined })
FacetPartials(fn) ==
    {Obj1(FacetKey(fn), v) :
        v \in {Undef, Arr(<<Str(IF fn = "fetchTasks" THEN cTodo ELSE cAdmin)>>)}}

\* onSortingChange: setFilters({ sortBy: stateToSortBy(newSortingState) })
SortingPartials(fn) ==
    {Obj1("sortBy", v) : v \in {Undef, Str(KeyChars[TextKey(fn)] \o cDot \o cAsc),
                                 Str(KeyChars[TextKey(fn)] \o cDot \o cDesc)}}

\* const paginationState = { pageIndex: pageIndex ?? DEFAULT_PAGE_INDEX,
\*                           pageSize: pageSize ?? DEFAULT_PAGE_SIZE }
paginationState(rendered) ==
    [pageIndex |-> IF Get(rendered, "pageIndex") = Undef
                      THEN Num(DEFAULT_PAGE_INDEX) ELSE rendered["pageIndex"],
     pageSize |-> IF Get(rendered, "pageSize") = Undef
                     THEN Num(DEFAULT_PAGE_SIZE) ELSE rendered["pageSize"]]

\* onPaginationChange: setFilters(pagination(paginationState)), for the
\* page indexes the pagination controls offer: the pages of the rowCount
\* the table was given.
PaginationPartials(rendered, rowCount) ==
    {[pageIndex |-> Num(i), pageSize |-> paginationState(rendered).pageSize] :
        i \in {j \in 0..MaxPage : j = 0 \/ j * paginationState(rendered).pageSize.n < rowCount}}

\* The rows of the table body: with manualPagination the rows of data.result.
DisplayedRows == fetched.result

\* table.getRowModel().rows?.length ? rows : the 'No results' row
NoResultsRow == Len(DisplayedRows) = 0

\* The world of the table page: one record of each profile, in turn.
\* column.getFacetedUniqueValues() of a table whose data is `rows` and whose
\* columnFilters state is empty: the value of the column in each row with the
\* number of rows it stands for.  A value that is an array is a key of its
\* own for every row; equal primitive values share a key, which gives the
\* same sums in customFacets.
getFacetedUniqueValues(rows, columnId) ==
    [i \in 1..Len(rows) |-> [key |-> Get(rows[i], columnId), value |-> 1]]

\* The number of times `option` is among the elements of the array.
Occurrences(array, option) == Cardinality({j \in 1..Len(array) : array[j] = option})

\* The sum customFacets holds for `option` after the first n entries of
\* facets, 0 when no entry has set it.
RECURSIVE customFacetsSum(_, _, _)
customFacetsSum(facets, option, n) ==
    IF n = 0 THEN 0
    ELSE customFacetsSum(facets, option, n - 1)
         + (IF facets[n].key.t = "array"
               THEN Occurrences(facets[n].key.a, option) * facets[n].value
               ELSE IF facets[n].key = option THEN facets[n].value ELSE 0)

\* customFacets.get(option.value): undefined when no entry of facets holds
\* the option, else the sum.
customFacetsGet(facets, option) ==
    IF \A n \in 1..Len(facets) :
           IF facets[n].key.t = "array" THEN ~ArrIncludes(facets[n].key.a, option)
           ELSE facets[n].key # option
       THEN Undef
       ELSE Num(customFacetsSum(facets, option, Len(facets)))

\* options: the candidate values the faceted filter of the route lists.
FacetOptions(fn) ==
    IF fn = "fetchTasks" THEN {Str(cDone), Str(cTodo)} ELSE {Str(cAdmin), Str(cOperator)}

\* The count rendered next to an option of the faceted filter.
FacetCount(option) ==
    customFacetsGet(getFacetedUniqueValues(DisplayedRows, FacetKey(fetched.fn)), option)

TablePicks == [i \in 1..MaxRecords |-> ((i - 1) % Len(TaskProfiles)) + 1]

\* The search objects the page is opened with.
TableUrls == {EmptyObj} \cup {Obj1("pageSize", Num(s)) : s \in 1..2}

InitTable ==
    /\ data = makeDataTasks(MaxRecords, TablePicks)
    /\ fakeUserData = makeDataUsers(MaxRecords, TablePicks)
    /\ search \in TableUrls
    /\ last = NoOp
    /\ \E fn \in {"fetchTasks", "fetchUsers"} :
           fetched \in (IF fn = "fetchTasks" THEN fetchTasks(search) ELSE fetchUsers(search))
    /\ FirstRender
    /\ NoInput

\* A component's event handler calls setFilters(partialFilters).
CallSetFilters(partialFilters) ==
    /\ Len(calls) < MaxCalls
    /\ search' = setFilters(search, renderedFilters, partialFilters)
    /\ last' = Op("setFilters", partialFilters, search)
    /\ calls' = Append(calls, partialFilters)
    /\ UNCHANGED <<data, fakeUserData, fetched, renderedFilters, inputVars>>

ChangeTextFilter == \E p \in TextFilterPartials(fetched.fn) : CallSetFilters(p)
ChangeFacet == \E p \in FacetPartials(fetched.fn) : CallSetFilters(p)
ChangeSorting == \E p \in SortingPartials(fetched.fn) : CallSetFilters(p)
ChangePagination ==
    \E p \in PaginationPartials(renderedFilters, fetched.rowCount) : CallSetFilters(p)

\* The page renders with the search the navigations left and its query runs:
\* useQuery({ queryKey: [.., filters], queryFn: () => fetchUsers(filters) })
Render ==
    /\ calls # <<>>
    /\ renderedFilters' = search
    /\ calls' = <<>>
    /\ IF fetched.fn = "fetchTasks"
          THEN \E outcome \in fetchTasks(search) :
                   /\ fetched' = outcome
                   /\ data' = dataAfterFetchTasks(search, outcome)
                   /\ fakeUserData' = fakeUserData
          ELSE \E outcome \in fetchUsers(search) :
                   /\ fetched' = outcome
                   /\ fakeUserData' = fakeUserDataAfterFetchUsers(search, outcome)
                   /\ data' = data
    /\ UNCHANGED <<search, last, inputVars>>

NextTable ==
    ChangeTextFilter \/ ChangeFacet \/ ChangeSorting \/ ChangePagination \/ Render

SpecTable == InitTable /\ [][NextTable]_vars

----------------------------------------------------------------------------
(* The users table: row checkboxes, the select-all checkbox, the toolbar's *)
(* ResetButton and the faceted filter's 'clear filters'.  Each handler     *)
(* closes over the filters its component was rendered with.                *)

\* Array.from(new Set(array)): the elements in order, each once.
RECURSIVE SetElements(_)
SetElements(array) ==
    IF array = <<>> THEN <<>>
    ELSE LET front == SetElements(SubSeq(array, 1, Len(array) - 1))
             x == array[Len(array)]
         IN IF ArrIncludes(front, x) THEN front ELSE Append(front, x)

\* new Set(selectedIds || []), for the selectedIds the URL states hold: an
\* array or nothing.
selectedIdsSet(selectedIds) ==
    IF selectedIds.t = "array" THEN SetElements(selectedIds.a) ELSE <<>>

\* Variant of setAdd the code does not use: push in place of Set.add.
setAddPush(set, id) == Append(set, id)

\* selectedIdsSet.add(id)
setAdd(set, id) == IF ArrIncludes(set, id) THEN set ELSE Append(set, id)

\* selectedIdsSet.delete(id)
setDelete(set, id) == SelectSeq(set, LAMBDA x : x # id)

\* CheckedRow.handleCheckChange(value): the argument of its setFilters call.
handleCheckChange(rendered, id, value) ==
    LET selectedIds == selectedIdsSet(Get(rendered, "selectedIds"))
    IN Spread(rendered,
              Obj1("selectedIds",
                   Arr(IF value THEN setAdd(selectedIds, id) ELSE setDelete(selectedIds, id))))

\* allIds={table.getRowModel().rows.map((row) => UserTable.parse(row.original).id)}
allIds(rows) == [i \in 1..Len(rows) |-> rows[i]["id"]]

\* SelectAllCheckbox.handleSelectAllChange(value): the argument of its
\* setFilters call.
handleSelectAllChange(rendered, ids, value) ==
    Spread(rendered, Obj1("selectedIds", IF value THEN Arr(ids) ELSE Undef))

\* DataTableFacetedFilter.handleClearFilters: the argument of its setFilters call.
handleClearFilters(columnId) == Obj1(columnId, Arr(<<>>))

\* A search object as the URL holds it: a property whose value is undefined
\* is not written.
Defined(obj) == [key \in {k \in DOMAIN obj : obj[k] # Undef} |-> obj[key]]

\* ResetButton: the search object of its navigate call,
\* { pageIndex, pageSize, selectedIds: selectedIds && selectedIds.length > 0
\*   ? selectedIds : undefined }
ResetButtonSearch(rendered) ==
    LET selectedIds == Get(rendered, "selectedIds")
    IN Defined([pageIndex |-> Get(rendered, "pageIndex"),
                pageSize |-> Get(rendered, "pageSize"),
                selectedIds |-> IF selectedIds.t = "array" /\ Len(selectedIds.a) > 0
                                   THEN selectedIds ELSE Undef])

\* IsColumnFiltered(filters)
IsColumnFiltered(filters) ==
    Cardinality({filter \in DOMAIN filters :
                    filter # "pageSize" /\ filter # "pageIndex" /\ filter # "selectedIds"}) > 0

\* The handler a navigation came from, with the row id and the value of a
\* checkbox change.
HandlerOp(name, id, value) == [op |-> name, id |-> id, value |-> value]

\* The URL states the users page is opened with.
SelectionUrls == {Obj1("pageSize", Num(s)) : s \in 1..2}

InitSelection ==
    /\ data = makeDataTasks(MaxRecords, TablePicks)
    /\ fakeUserData = makeDataUsers(MaxRecords, TablePicks)
    /\ search \in SelectionUrls
    /\ last = NoOp
    /\ fetched \in fetchUsers(search)
    /\ FirstRender
    /\ NoInput

\* A handler calls setFilters(partialFilters).  The call is counted in
\* `calls`, without its argument.
HandlerSetFilters(name, id, value, partialFilters) ==
    /\ Len(calls) < MaxCalls
    /\ search' = setFilters(search, renderedFilters, partialFilters)
    /\ last' = HandlerOp(name, id, value)
    /\ calls' = Append(calls, EmptyObj)
    /\ UNCHANGED <<data, fakeUserData, fetched, renderedFilters, inputVars>>

\* The checkbox of a row of the page is checked or unchecked.
CheckRow ==
    \E i \in 1..Len(DisplayedRows), value \in BOOLEAN :
        HandlerSetFilters("handleCheckChange", DisplayedRows[i]["id"], value,
                          handleCheckChange(renderedFilters, DisplayedRows[i]["id"], value))

\* The select-all checkbox of the header is checked or unchecked.
SelectAll ==
    \E value \in BOOLEAN :
        HandlerSetFilters("handleSelectAllChange", Undef, value,
                          handleSelectAllChange(renderedFilters, allIds(DisplayedRows), value))

\* 'Clear filters' of the faceted filter, shown while values are selected.
ClearFacet ==
    /\ Get(renderedFilters, FacetKey(fetched.fn)).t = "array"
    /\ Len(renderedFilters[FacetKey(fetched.fn)].a) > 0
    /\ HandlerSetFilters("handleClearFilters", Undef, FALSE,
                         handleClearFilters(FacetKey(fetched.fn)))

\* The toolbar's ResetButton, rendered while isFiltered, is clicked.
ClickReset ==
    /\ IsColumnFiltered(renderedFilters)
    /\ Len(calls) < MaxCalls
    /\ search' = NavigateSearch(search, SearchObject(ResetButtonSearch(renderedFilters)))
    /\ last' = HandlerOp("ResetButton", Undef, FALSE)
    /\ calls' = Append(calls, EmptyObj)
    /\ UNCHANGED <<data, fakeUserData, fetched, renderedFilters, inputVars>>

\* A value of the faceted filter is selected or the last one unselected.
SelectFacet ==
    \E p \in FacetPartials(fetched.fn) : HandlerSetFilters("handleSelect", Undef, FALSE, p)

\* The pagination controls move the table to another page.
TurnPage ==
    \E p \in PaginationPartials(renderedFilters, fetched.rowCount) :
        HandlerSetFilters("onPaginationChange", Undef, FALSE, p)

NextSelection ==
    CheckRow \/ SelectAll \/ ClearFacet \/ ClickReset \/ SelectFacet \/ TurnPage \/ Render

SpecSelection == InitSelection /\ [][NextSelection]_vars

----------------------------------------------------------------------------
(* DebouncedInput: the input keeps its text in the state `value`; an       *)
(* effect of [value] sets a timeout that calls onChange(value) after       *)
(* `debounce` milliseconds, and its cleanup clears that timeout.           *)

\* debounce = 300, the default of the prop
debounce == 300

\* The filter an input is for, by its type: the toolbar's id input is a
\* number input, its name input a text input.
FilterKeyOf(inputTypeProp) == IF inputTypeProp = "number" THEN "id" ELSE "name"

\* value={filters[filterKey] ?? ''}: the prop `value` (initialValue).
initialValue(rendered, filterKey) ==
    IF Get(rendered, filterKey) = Undef THEN Str(<<>>) ELSE rendered[filterKey]

\* The texts a keystroke can leave in the input element.
InputTexts(inputTypeProp) ==
    IF inputTypeProp = "number"
       THEN {<<>>, <<"7">>, <<"0", "7">>}
       ELSE {<<>>, <<"a">>}

\* The onChange handler of <Input>: the value it calls setValue with.
\* e.target.valueAsNumber is the number the text denotes.
keystrokeValue(inputTypeProp, targetValue) ==
    IF targetValue = <<>> THEN Str(<<>>)
    ELSE IF inputTypeProp = "number" THEN StringToNumber(targetValue)
    ELSE Str(targetValue)

\* A pending timeout: the instance whose effect set it, the filter key and
\* the value its callback closes over, and the milliseconds left.
Timeout(input, filterKey, v, left) ==
    [input |-> input, filterKey |-> filterKey, value |-> v, left |-> left]

\* Variant of cleanup the code does not use: the effect returns no cleanup.
cleanupKeepsTimeout(pending, input) == pending

\* The effect's cleanup, return () => clearTimeout(timeout): run before the
\* effect runs again and when the instance is unmounted.
cleanup(pending, input) == {t \in pending : t.input # input}

\* The effect of [value]: const timeout = setTimeout(() => onChange(value), debounce)
effect(pending, input, filterKey, v) ==
    pending \cup {Timeout(input, filterKey, v, debounce)}

\* The URL states a page with a DebouncedInput is opened with.
DebounceUrls == {EmptyObj, Obj1("name", Str(<<"a">>))}

InitDebounce ==
    /\ data = makeDataTasks(MaxRecords, TablePicks)
    /\ fakeUserData = makeDataUsers(MaxRecords, TablePicks)
    /\ search \in DebounceUrls
    /\ last = NoOp
    /\ fetched = NotFetched
    /\ FirstRender
    /\ NoInput

\* A DebouncedInput is mounted: useState(initialValue), and the effect of
\* [value] runs for the first time.
Mount ==
    /\ ~mounted
    /\ instance < MaxInputs
    /\ \E inputTypeProp \in {"text", "number"} :
           LET filterKey == FilterKeyOf(inputTypeProp)
               initial == initialValue(renderedFilters, filterKey)
           IN /\ instance' = instance + 1
              /\ mounted' = TRUE
              /\ inputType' = inputTypeProp
              /\ inputValue' = initial
              /\ inputText' = ToStringChars(initial)
              /\ timers' = effect(timers, instance + 1, filterKey, initial)
              /\ idle' = 0
    /\ UNCHANGED <<data, fakeUserData, search, last, fetched, tableVars, forwarded, cancelled>>

\* A keystroke changes the text of the input element and its onChange
\* handler calls setValue; the effect of [value] runs again, its cleanup
\* first, when `value` has changed.
Keystroke ==
    /\ mounted
    /\ \E targetValue \in InputTexts(inputType) \ {inputText} :
           LET v == keystrokeValue(inputType, targetValue)
           IN /\ inputText' = targetValue
              /\ idle' = 0
              /\ IF v = inputValue
                    THEN UNCHANGED <<inputValue, timers>>
                    ELSE /\ inputValue' = v
                         /\ timers' = effect(cleanup(timers, instance), instance,
                                             FilterKeyOf(inputType), v)
    /\ UNCHANGED <<data, fakeUserData, search, last, fetched, tableVars,
                   instance, mounted, inputType, forwarded, cancelled>>

\* Time passes while no timeout is due.
Tick ==
    /\ \A t \in timers : t.left > 0
    /\ timers' = {Timeout(t.input, t.filterKey, t.value, Max(t.left - TickMs, 0)) : t \in timers}
    /\ idle' = Min(idle + TickMs, debounce)
    /\ UNCHANGED <<data, fakeUserData, search, last, fetched, tableVars,
                   instance, mounted, inputType, inputText, inputValue, forwarded, cancelled>>

\* A due timeout runs its callback: onChange(value), which is
\* setFilters({ [filterKey]: value }); the page renders with the new search
\* and the effect of [initialValue] calls setValue(initialValue) when the
\* prop has changed.
Fire ==
    /\ Len(forwarded) < MaxForwarded
    /\ \E t \in timers :
           /\ t.left = 0
           /\ LET partialFilters == Obj1(t.filterKey, t.value)
                  left == timers \ {t}
                  filterKey == FilterKeyOf(inputType)
                  before == initialValue(renderedFilters, filterKey)
              IN /\ forwarded' = Append(forwarded,
                                        [input |-> t.input, value |-> t.value, idle |-> idle,
                                         current |-> inputValue,
                                         mounted |-> mounted /\ t.input = instance])
                 /\ search' = setFilters(search, renderedFilters, partialFilters)
                 /\ last' = Op("setFilters", partialFilters, search)
                 /\ renderedFilters' = search'
                 /\ LET after == initialValue(search', filterKey)
                    IN IF mounted /\ after # before /\ after # inputValue
                          THEN /\ inputValue' = after
                               /\ inputText' = ToStringChars(after)
                               /\ timers' = effect(cleanup(left, instance), instance,
                                                   filterKey, after)
                          ELSE /\ timers' = left
                               /\ UNCHANGED <<inputValue, inputText>>
    /\ UNCHANGED <<data, fakeUserData, fetched, calls, instance, mounted, inputType, idle,
                   cancelled>>

\* The DebouncedInput is unmounted: the cleanup of its effect runs and the
\* state of the component is gone.
Unmount ==
    /\ mounted
    /\ mounted' = FALSE
    /\ timers' = cleanup(timers, instance)
    /\ cancelled' = cancelled \cup {t.input : t \in timers \ cleanup(timers, instance)}
    /\ inputType' = "text"
    /\ inputText' = <<>>
    /\ inputValue' = Str(<<>>)
    /\ UNCHANGED <<data, fakeUserData, search, last, fetched, tableVars,
                   instance, forwarded, idle>>

NextDebounce == Mount \/ Keystroke \/ Tick \/ Fire \/ Unmount

SpecDebounce == InitDebounce /\ [][NextDebounce]_vars

----------------------------------------------------------------------------
(* The toolbar: DebouncedInputs next to the ResetButton.                   *)

\* The user types until the ResetButton is clicked and not after it.
KeystrokeBeforeReset == last.op # "ResetButton" /\ Keystroke

\* The ResetButton of the toolbar is clicked; the page renders with the
\* new search and the DebouncedInput's effect of [initialValue] calls
\* setValue(initialValue) when its prop has changed.
ClickResetOfToolbar ==
    /\ IsColumnFiltered(renderedFilters)
    /\ LET filterKey == FilterKeyOf(inputType)
           before == initialValue(renderedFilters, filterKey)
       IN /\ search' = NavigateSearch(search, SearchObject(ResetButtonSearch(renderedFilters)))
          /\ last' = HandlerOp("ResetButton", Undef, FALSE)
          /\ renderedFilters' = search'
          /\ LET after == initialValue(search', filterKey)
             IN IF mounted /\ after # before /\ after # inputValue
                   THEN /\ inputValue' = after
                        /\ inputText' = ToStringChars(after)
                        /\ timers' = effect(cleanup(timers, instance), instance,
                                            filterKey, after)
                   ELSE UNCHANGED <<inputValue, inputText, timers>>
    /\ UNCHANGED <<data, fakeUserData, fetched, calls, instance, mounted, inputType, forwarded,
                   idle, cancelled>>

NextToolbar ==
    Mount \/ KeystrokeBeforeReset \/ Tick \/ Fire \/ Unmount \/ ClickResetOfToolbar

SpecToolbar == InitDebounce /\ [][NextToolbar]_vars

----------------------------------------------------------------------------
(* Claims about the filter state.                                          *)

\* A value the stripping rules remove: undefined, '', NaN, pageIndex 0, pageSize 10.
Stripped(key, value) ==
    \/ value = Undef
    \/ value = Str(<<>>)
    \/ value.t = "nan"
    \/ (key = "pageIndex" /\ value = Num(0))
    \/ (key = "pageSize" /\ value = Num(10))

\* C3: after resetFilters, from any URL state, the state read is the empty
\* QueryState: no key remains.
C3_ResetYieldsEmpty ==
    last.op \in {"resetFilters", "resetFiltersEmpty"} => search = EmptyObj

C5_NoEmptyParamsAfterMerge ==
    last.op = "setFilters" =>
        /\ \A k \in DOMAIN search : ~Stripped(k, search[k])
        /\ ("name" \in DOMAIN last.partial /\ last.partial["name"] = Str(<<>>))
               => "name" \notin DOMAIN search

\* setFilters({name: ''}) on a state whose name was 'ann', and
\* setFilters({pageSize: 10}) on a state that held another page size.
C5_Witness ==
    /\ last.op = "setFilters"
    /\ \/ /\ last.partial = Obj1("name", Str(<<>>))
          /\ Get(last.prev, "name") = Str(cAnn)
          /\ "name" \notin DOMAIN search
       \/ /\ last.partial = Obj1("pageSize", Num(10))
          /\ Get(last.prev, "pageSize") = Num(OtherPageSize)
          /\ "pageSize" \notin DOMAIN search

\* C6: applying setFilters(p) again to the state it left yields that state.
C6_MergeIdempotent ==
    last.op = "setFilters" => setFiltersSearch(search, last.partial) = search

\* A merge that changed the URL state and had a value stripped.
C6_Witness ==
    /\ last.op = "setFilters"
    /\ search # last.prev
    /\ \E k \in DOMAIN last.partial : Stripped(k, last.partial[k]) /\ k \in DOMAIN last.prev
    /\ \E k \in DOMAIN last.partial : ~Stripped(k, last.partial[k])

----------------------------------------------------------------------------
(* Claims about the query engine.  `fetched` holds the locals of the last *)
(* call: requestedData (after the sort), filteredData (before slicing),   *)
(* result and rowCount.                                                    *)

Fetched == fetched.fn # "none" /\ ~fetched.threw

FetchBy(fn, query) == IF fn = "fetchTasks" THEN fetchTasks(query) ELSE fetchUsers(query)
Collection(fn) == IF fn = "fetchTasks" THEN data ELSE fakeUserData

\* The keys of a query that are no generic field filters.
NonFilterKeys(fn) ==
    IF fn = "fetchTasks" THEN {"pageIndex", "pageSize", "sortBy"}
    ELSE {"pageIndex", "pageSize", "sortBy", "selection", "selectedIds", "from", "to"}
FieldFilterKeys(fn, query) == (DOMAIN query) \ NonFilterKeys(fn)

Elements(seq) == {seq[i] : i \in 1..Len(seq)}

\* The records a query with the single field filter {key: value} keeps.
KeptByFieldAlone(fn, key, value) ==
    UNION {Elements(o.filteredData) : o \in FetchBy(fn, Obj1(key, value))}

\* A filter value of the type of the record field it is on, and not empty: a
\* string on a text field, a number on a numeric field, an array on a tag field.
WellTyped(record, key, value) ==
    /\ key \in DOMAIN record
    /\ \/ record[key].t = "string" /\ value.t = "string" /\ Len(value.s) > 0
       \/ record[key].t = "number" /\ value.t = "number"
       \/ record[key].t = "array" /\ value.t = "array" /\ Len(value.a) > 0

\* The predicate of one field as the specification words it.
FieldPredicate(record, key, value) ==
    CASE record[key].t = "string" ->
             \E off \in 0..(Len(record[key].s) - Len(value.s)) :
                 \A i \in 1..Len(value.s) :
                     LowerChar[record[key].s[off + i]] = LowerChar[value.s[i]]
      [] record[key].t = "number" -> record[key].n = value.n
      [] OTHER -> Elements(record[key].a) \cap Elements(value.a) # {}

\* C1: a record is in the filtered sequence iff it passes every field's
\* predicate taken on its own (AND across fields); for a value of the field's
\* type the predicate is case-insensitive containment (text), numeric equality
\* (number), match-any (tags).
C1_FilterAndComposition ==
    (Fetched /\ (DOMAIN search) \cap {"selection", "from", "to"} = {}) =>
        LET keys == FieldFilterKeys(fetched.fn, search)
        IN /\ fetched.filteredData =
                  SelectSeq(fetched.requestedData,
                            LAMBDA r : \A k \in keys :
                                           r \in KeptByFieldAlone(fetched.fn, k, search[k]))
           /\ (\A r \in Elements(Collection(fetched.fn)) :
                   \A k \in keys : WellTyped(r, k, search[k]))
                  => fetched.filteredData =
                         SelectSeq(fetched.requestedData,
                                   LAMBDA r : \A k \in keys : FieldPredicate(r, k, search[k]))

\* Two field filters of the fields' types, each keeping a record the other rejects.
C1_Witness ==
    /\ Fetched
    /\ Cardinality(FieldFilterKeys(fetched.fn, search)) >= 2
    /\ \A r \in Elements(Collection(fetched.fn)) :
           \A k \in FieldFilterKeys(fetched.fn, search) : WellTyped(r, k, search[k])
    /\ \E k1, k2 \in FieldFilterKeys(fetched.fn, search) :
           \E r1, r2 \in Elements(Collection(fetched.fn)) :
               /\ FieldPredicate(r1, k1, search[k1]) /\ ~FieldPredicate(r1, k2, search[k2])
               /\ FieldPredicate(r2, k2, search[k2]) /\ ~FieldPredicate(r2, k1, search[k1])
    /\ \E r \in Elements(Collection(fetched.fn)) : r \in Elements(fetched.filteredData)

\* The field sortBy names, when sortBy is a string naming a record field.
SortField == Split(ToStringChars(search["sortBy"]), ".")[1]
SortOrder ==
    LET parts == Split(ToStringChars(search["sortBy"]), ".")
    IN IF Len(parts) >= 2 THEN Str(parts[2]) ELSE Undef
SortsByField ==
    /\ Fetched
    /\ "sortBy" \in DOMAIN search
    /\ search["sortBy"].t = "string"
    /\ Len(search["sortBy"].s) > 0
    /\ \E k \in DOMAIN KeyChars : KeyChars[k] = SortField
PositionIn(seq, record) == CHOOSE i \in 1..Len(seq) : seq[i] = record

\* C2: for every sortBy naming a record field, two records with equal values
\* of that field keep their relative order in the sorted sequence, and the
\* comparator returns 0 for them.
C2_StableSort ==
    SortsByField =>
        LET input == Collection(fetched.fn)
            sorted == fetched.requestedData
        IN \A i, j \in 1..Len(input) :
               (/\ i < j
                /\ GetProp(input[i], SortField) = GetProp(input[j], SortField)
                /\ input[i] \in Elements(sorted)
                /\ input[j] \in Elements(sorted))
                   => /\ PositionIn(sorted, input[i]) < PositionIn(sorted, input[j])
                      /\ compare(input[i], input[j], SortField, SortOrder) = 0

\* pageIndex >= 0 and pageSize >= 1, absent ones taking their defaults.
PageIndexOf(query) ==
    IF "pageIndex" \in DOMAIN query THEN query["pageIndex"] ELSE Num(0)
PageSizeOf(query) ==
    IF "pageSize" \in DOMAIN query THEN query["pageSize"] ELSE Num(10)
ValidPage(query) ==
    /\ PageIndexOf(query).t = "number" /\ PageIndexOf(query).n >= 0
    /\ PageSizeOf(query).t = "number" /\ PageSizeOf(query).n >= 1

\* The elements of seq at the offsets lo <= offset < hi, in order.
AtOffsets(seq, lo, hi) ==
    LET n == IF hi <= Len(seq) THEN hi - lo ELSE Len(seq) - lo
    IN [i \in 1..(IF n > 0 THEN n ELSE 0) |-> seq[lo + i]]

\* The page a call with page index k returns, the rest of the query and the
\* order the sort left being those of the last call.
PageOfCall(k) ==
    (CHOOSE o \in FetchBy(fetched.fn, Spread(search, Obj1("pageIndex", Num(k)))) :
         o.requestedData = fetched.requestedData).result

RECURSIVE PagesUpTo(_)
PagesUpTo(k) == IF k < 0 THEN <<>> ELSE PagesUpTo(k - 1) \o PageOfCall(k)

\* C7: with pageIndex >= 0 and pageSize >= 1 the page is the elements of the
\* filtered-and-sorted sequence at offsets [pageIndex*pageSize,
\* (pageIndex+1)*pageSize), the pages 0, 1, 2, ... concatenated are the whole
\* sequence, and rowCount is its length.
C7_PageIsSliceOfFiltered ==
    (Fetched /\ ValidPage(search)) =>
        LET pi == PageIndexOf(search).n
            ps == PageSizeOf(search).n
        IN /\ fetched.result = AtOffsets(fetched.filteredData, pi * ps, (pi + 1) * ps)
           /\ fetched.rowCount = Len(fetched.filteredData)
           /\ PagesUpTo(Len(fetched.filteredData)) = fetched.filteredData

\* A page after the first that is neither empty nor the whole sequence.
C7_Witness ==
    /\ Fetched /\ ValidPage(search)
    /\ PageIndexOf(search).n >= 1
    /\ Len(fetched.result) >= 1
    /\ Len(fetched.result) < Len(fetched.filteredData)
    /\ Len(fetched.filteredData) < Len(Collection(fetched.fn))

\* The page settings the other query of C8 has: none, or any valid ones.
OtherPages ==
    {EmptyObj} \cup
    {Spread(Obj1("pageIndex", Num(i)), Obj1("pageSize", Num(s))) :
        i \in 0..(MaxPage + 1), s \in 1..(MaxRecords + 1)}

\* C8: two queries that differ only in pageIndex and pageSize return the same
\* rowCount.
C8_RowCountIgnoresPage ==
    Fetched =>
        \A page \in OtherPages :
            \A o \in FetchBy(fetched.fn,
                             Spread(Rest(search, {"pageIndex", "pageSize"}), page)) :
                ~o.threw /\ o.rowCount = fetched.rowCount

\* A page shorter than the matches: rowCount is not the length of the page.
C8_Witness ==
    /\ Fetched
    /\ "pageSize" \in DOMAIN search
    /\ fetched.rowCount > Len(fetched.result)
    /\ Len(fetched.result) > 0
    /\ fetched.rowCount < Len(Collection(fetched.fn))

\* C9: on every field type a filter value that is absent, '' or [] imposes no
\* constraint: the query returns what it returns with that key removed.
C9_EmptyFilterNoConstraint ==
    Fetched =>
        \A k \in FieldFilterKeys(fetched.fn, search) :
            search[k] \in {Str(<<>>), Arr(<<>>)} =>
                \E o \in FetchBy(fetched.fn, Rest(search, {k})) :
                    o.result = fetched.result /\ o.rowCount = fetched.rowCount

\* C10: for every query state read from a URL the query engine returns a
\* result; it never throws.
C10_NeverThrows == ~fetched.threw

----------------------------------------------------------------------------
(* Claims about the steps of fetchUsers and fetchTasks.                    *)

\* The selection-state step as the specification words it, for a selection
\* array and a selectedIds array (absent: the empty set).
SelectionStatePasses(record, query) ==
    LET selection == Elements(query["selection"].a)
        selectedIds == IF "selectedIds" \in DOMAIN query
                          THEN Elements(query["selectedIds"].a) ELSE {}
    IN \/ selection = {}
       \/ Str(cSelected) \in selection /\ record.id \in selectedIds
       \/ Str(cNotSelected) \in selection /\ record.id \notin selectedIds

SelectionArrayPresent ==
    /\ Fetched
    /\ fetched.fn = "fetchUsers"
    /\ "selection" \in DOMAIN search
    /\ search["selection"].t = "array"

\* C12: with a selection array present, the records left by the selection
\* step are those for which the array is empty, or it holds SELECTED and the
\* id is in selectedIds, or it holds NOT_SELECTED and the id is not in
\* selectedIds (absent selectedIds: no id).
C12_SelectionStateStep ==
    (SelectionArrayPresent /\ "sortBy" \notin DOMAIN search) =>
        fetched.requestedData =
            SelectSeq(fakeUserData, LAMBDA r : SelectionStatePasses(r, search))

\* A selection that keeps some users and rejects others, by their ids.
C12_Witness ==
    /\ SelectionArrayPresent
    /\ "selectedIds" \in DOMAIN search
    /\ Str(cNotSelected) \in Elements(search["selection"].a)
    /\ Len(fetched.requestedData) > 0
    /\ Len(fetched.requestedData) < Len(fakeUserData)

\* A tag value no record of the collections holds (the example of C13).
cArchived == <<"a", "r", "c", "h", "i", "v", "e", "d">>

\* The tag fields of the records of a collection.
TagKeys(fn) == IF fn = "fetchTasks" THEN {"status", "priority"} ELSE {"role"}

SharesAValue(record, key, value) ==
    Elements(record[key].a) \cap Elements(value.a) # {}

\* C13: with a tag filter holding a non-empty array a record passes iff its
\* field shares a value with the array; status [done, archived] passes
\* {status: [done, todo]} and status [archived] does not.
C13_TagMatchAny ==
    Fetched =>
        /\ \A k \in FieldFilterKeys(fetched.fn, search) \cap TagKeys(fetched.fn) :
               (search[k].t = "array" /\ Len(search[k].a) > 0) =>
                   /\ \A r \in Elements(fetched.filteredData) : SharesAValue(r, k, search[k])
                   /\ (DOMAIN search) \ NonFilterKeys("fetchTasks") = {k} =>
                          \A r \in Elements(fetched.requestedData) :
                              SharesAValue(r, k, search[k]) => r \in Elements(fetched.filteredData)
        /\ \A key \in TagKeys(fetched.fn) :
               LET passes(obj, filter) ==
                       IF fetched.fn = "fetchTasks" THEN taskKeyPasses(obj, key, filter)
                       ELSE userKeyPasses(obj, key, filter)
               IN /\ passes(Obj1(key, Arr(<<Str(cDone), Str(cArchived)>>)),
                            Arr(<<Str(cDone), Str(cTodo)>>))
                  /\ ~passes(Obj1(key, Arr(<<Str(cArchived)>>)), Arr(<<Str(cDone), Str(cTodo)>>))

\* A two-valued tag filter alone in the query, keeping some records and not all.
C13_Witness ==
    /\ Fetched
    /\ \E k \in FieldFilterKeys(fetched.fn, search) \cap TagKeys(fetched.fn) :
           /\ (DOMAIN search) \ NonFilterKeys("fetchTasks") = {k}
           /\ search[k].t = "array" /\ Len(search[k].a) >= 1
           /\ Len(fetched.filteredData) > 0
           /\ Len(fetched.filteredData) < Len(fetched.requestedData)

\* A bound of the date range that new Date turns into a date.
DateBound(query, key) == key \in DOMAIN query /\ query[key].t \in {"iso", "date"}

\* The UTC day of the record's date lies within the bounds' UTC days.
WithinDays(record, query) ==
    /\ DateBound(query, "from") => record.birthday.n >= query["from"].n
    /\ DateBound(query, "to") => record.birthday.n <= query["to"].n

DateRangeQuery ==
    /\ Fetched
    /\ fetched.fn = "fetchUsers"
    /\ FieldFilterKeys(fetched.fn, search) = {}
    /\ \A key \in {"from", "to"} : key \in DOMAIN search => DateBound(search, key)

\* C14: the date-range step keeps a record iff the UTC day of its date is
\* not before the UTC day of from and not after the UTC day of to (each when
\* present); with 2020-01-01 as day 1, a record dated day 31 23:59:59.999
\* passes {from: day 1, to: day 31} and one dated day 32 00:00:00.000 does not.
C14_DateRangeByUtcDay ==
    /\ DateRangeQuery =>
           fetched.filteredData =
               SelectSeq(fetched.requestedData, LAMBDA r : WithinDays(r, search))
    /\ (Fetched /\ fetched.fn = "fetchUsers") =>
           /\ dateRangePasses([birthday |-> DateV(31, MsPerDay - 1)], Iso(1, 0), Iso(31, 0))
           /\ ~dateRangePasses([birthday |-> DateV(32, 0)], Iso(1, 0), Iso(31, 0))

\* A record kept although its time of day is before that of `from`, on
\* from's day, while another record is rejected.
C14_Witness ==
    /\ DateRangeQuery
    /\ DateBound(search, "from")
    /\ \E r \in Elements(fetched.filteredData) :
           r.birthday.n = search["from"].n /\ r.birthday.m < search["from"].m
    /\ Len(fetched.filteredData) < Len(fetched.requestedData)

\* The sort field is a text or numeric field of the records and the order
\* is 'asc' or 'desc'.
SortsByTextOrNumber ==
    /\ SortsByField
    /\ Len(Collection(fetched.fn)) > 0
    /\ GetProp(Collection(fetched.fn)[1], SortField).t \in {"string", "number"}
    /\ SortOrder \in {Str(cAsc), Str(cDesc)}

\* No element of seq is less, by the field, than the element before it.
NonDecreasing(seq, field) ==
    \A i \in 1..(Len(seq) - 1) :
        ~LessThan(GetProp(seq[i + 1], field), GetProp(seq[i], field))
NonIncreasing(seq, field) ==
    \A i \in 1..(Len(seq) - 1) :
        ~LessThan(GetProp(seq[i], field), GetProp(seq[i + 1], field))

\* The records the query keeps when it has no sortBy.
KeptUnsorted ==
    UNION {Elements(o.filteredData) : o \in FetchBy(fetched.fn, Rest(search, {"sortBy"}))}

\* C20: with sortBy '<field>.asc' on a text or numeric field the sequence
\* before slicing is a permutation of the records passing the filters in
\* non-decreasing order of the field, with '<field>.desc' in non-increasing
\* order, and the page is the records at offsets [pageIndex*pageSize,
\* (pageIndex+1)*pageSize) of that ordering.
C20_SortedThenSliced ==
    SortsByTextOrNumber =>
        /\ IF SortOrder = Str(cAsc)
              THEN NonDecreasing(fetched.filteredData, SortField)
              ELSE NonIncreasing(fetched.filteredData, SortField)
        /\ Elements(fetched.filteredData) = KeptUnsorted
        /\ Len(fetched.filteredData) = Cardinality(KeptUnsorted)
        /\ ValidPage(search) =>
               fetched.result =
                   AtOffsets(fetched.filteredData,
                             PageIndexOf(search).n * PageSizeOf(search).n,
                             (PageIndexOf(search).n + 1) * PageSizeOf(search).n)

\* A sort that moved records, sliced at a page after the first.
C20_Witness ==
    /\ SortsByTextOrNumber
    /\ fetched.requestedData # Collection(fetched.fn)
    /\ PageIndexOf(search).n >= 1
    /\ Len(fetched.result) = 1
    /\ \E i, j \in 1..Len(fetched.filteredData) :
           LessThan(GetProp(fetched.filteredData[i], SortField),
                    GetProp(fetched.filteredData[j], SortField))

----------------------------------------------------------------------------
(* Further claims about the filter state.                                  *)

\* C17: setFilters(p) leaves every key that is not in p as it was: a key
\* present before and absent from p has the same value afterwards, unless the
\* stripping rules remove it (a pageIndex 0, a pageSize 10, '' or NaN).
C17_MergeKeepsOtherKeys ==
    last.op = "setFilters" =>
        \A k \in (DOMAIN last.prev) \ (DOMAIN last.partial) :
            ~Stripped(k, last.prev[k]) =>
                k \in DOMAIN search /\ search[k] = last.prev[k]

\* A merge that changed the URL state, kept a key it did not name and
\* removed another it did not name, by the stripping rules.
C17_Witness ==
    /\ last.op = "setFilters"
    /\ search # last.prev
    /\ \E k \in (DOMAIN last.prev) \ (DOMAIN last.partial) :
           ~Stripped(k, last.prev[k]) /\ search[k] = last.prev[k]
    /\ \E k \in (DOMAIN last.prev) \ (DOMAIN last.partial) :
           Stripped(k, last.prev[k]) /\ k \notin DOMAIN search
    /\ \E k \in DOMAIN last.partial : ~Stripped(k, last.partial[k])

----------------------------------------------------------------------------
(* Claims about the table page.                                            *)

\* The page shows the result of the query of the current URL state.
Settled == calls = <<>> /\ Fetched

\* C11: the 'No results' row is rendered only when totalCount is 0: in every
\* state reached by filter, sort and page changes in which some record
\* matches, the displayed page has at least one row.
C11_NoResultsOnlyWhenNoMatch ==
    (Settled /\ NoResultsRow) => fetched.rowCount = 0

\* C15: no query changes the record collections: after any sequence of
\* fetch calls, sorted ones included, each module-level collection holds the
\* records it was made with, in the same order (so a query's result does not
\* depend on the queries run before it).
C15_CollectionsNeverChange ==
    /\ data = makeDataTasks(MaxRecords, TablePicks)
    /\ fakeUserData = makeDataUsers(MaxRecords, TablePicks)

\* A query has run that sorted all the records into another order, after
\* other queries.
C15_Witness ==
    /\ Settled
    /\ last.op = "setFilters"
    /\ Truthy(Get(search, "sortBy"))
    /\ Len(fetched.requestedData) = Len(Collection(fetched.fn))
    /\ fetched.requestedData # Collection(fetched.fn)
    /\ DOMAIN search # {"sortBy"}

\* merge as the specification words it: the partial over the state, then
\* the stripping rules.
MergeInto(state, partial) ==
    LET next == Spread(state, partial)
    IN [k \in {key \in DOMAIN next : ~Stripped(key, next[key])} |-> next[k]]

\* The merges of a sequence applied one after another, in call order.
RECURSIVE MergeAll(_, _)
MergeAll(state, partials) ==
    IF partials = <<>> THEN state
    ELSE MergeAll(MergeInto(state, Head(partials)), Tail(partials))

\* C18: after setFilters calls m1..mn made in rapid succession (before the
\* page renders again) the URL state is m1..mn applied one after another in
\* call order, each to the state the previous one left; no key written by an
\* earlier call is lost unless a later call names it.
C18_RapidMergesApplyInOrder ==
    /\ search = MergeAll(renderedFilters, calls)
    /\ \A i \in 1..Len(calls) :
           \A k \in DOMAIN calls[i] :
               (/\ ~Stripped(k, calls[i][k])
                /\ \A j \in (i + 1)..Len(calls) : k \notin DOMAIN calls[j])
                   => k \in DOMAIN search /\ search[k] = calls[i][k]

\* Two calls before a render, the second not naming the key the first
\* wrote: the URL state holds both, which no merge into the rendered filters
\* alone gives.
C18_Witness ==
    /\ Len(calls) >= 2
    /\ \E k \in DOMAIN calls[1] :
           /\ k \notin DOMAIN calls[2]
           /\ ~Stripped(k, calls[1][k])
           /\ Get(renderedFilters, k) # calls[1][k]
           /\ search[k] = calls[1][k]
    /\ \E k \in DOMAIN calls[2] : ~Stripped(k, calls[2][k]) /\ search[k] = calls[2][k]
    /\ search # MergeInto(renderedFilters, calls[2])

----------------------------------------------------------------------------
(* Claims about DebouncedInput.                                            *)

\* C16: keystrokes each less than the debounce delay after the one before
\* cause one forwarded onChange: an onChange is forwarded only when a full
\* debounce delay has passed with no keystroke, it carries the value of the
\* last keystroke, and at most one timeout is pending per input.
C16_DebounceForwardsLastOnce ==
    /\ \A n \in 1..instance : Cardinality({t \in timers : t.input = n}) <= 1
    /\ \A i \in 1..Len(forwarded) :
           /\ forwarded[i].idle >= debounce
           /\ forwarded[i].value = forwarded[i].current

\* C19: when a DebouncedInput is unmounted or replaced while a timeout is
\* pending the timeout is cleared: every pending timeout is one of the mounted
\* instance and no onChange is called by an instance that is not mounted.
C19_NoOnChangeAfterUnmount ==
    /\ \A t \in timers : mounted /\ t.input = instance
    /\ \A i \in 1..Len(forwarded) : forwarded[i].mounted

\* An instance was unmounted with its timeout pending and was replaced; a
\* full debounce delay has passed since and the only onChange is the one
\* of the instance that replaced it.
C19_Witness ==
    /\ 1 \in cancelled
    /\ instance = 2
    /\ idle = debounce
    /\ Len(forwarded) = 1
    /\ forwarded[1].input = 2

----------------------------------------------------------------------------
(* Claims about defaults and malformed filter values.                      *)

\* The query with pageIndex 0 and pageSize 10 written out where absent.
WithExplicitDefaults(query) ==
    Spread(Spread(Obj1("pageIndex", Num(0)), Obj1("pageSize", Num(10))), query)

\* The pages and row counts a call can return.
Displayed(fn, query) ==
    {<<outcome.threw, outcome.result, outcome.rowCount>> : outcome \in FetchBy(fn, query)}

\* C21: a query without pageIndex and/or pageSize returns the same page and
\* rowCount as the query with pageIndex 0 and/or pageSize 10 given
\* explicitly, and the table shows the same pagination state for both.
C21_AbsentPageIsDefaultPage ==
    fetched.fn # "none" =>
        /\ <<fetched.threw, fetched.result, fetched.rowCount>>
               \in Displayed(fetched.fn, WithExplicitDefaults(search))
        /\ Displayed(fetched.fn, search) = Displayed(fetched.fn, WithExplicitDefaults(search))
        /\ paginationState(search) = paginationState(WithExplicitDefaults(search))

\* A query without pageIndex and pageSize has run and returned every record.
C21_Witness ==
    /\ Fetched
    /\ "pageIndex" \notin DOMAIN search
    /\ "pageSize" \notin DOMAIN search
    /\ fetched.rowCount > 2
    /\ Len(fetched.result) = fetched.rowCount

\* The query holds a filter on a tag field of the records of `fn` whose
\* value is present, not the empty string and not an array.
MalformedTagFilter(fn, query) ==
    \E key \in TagKeys(fn) \cap DOMAIN query :
        /\ query[key] # Undef
        /\ query[key] # Str(<<>>)
        /\ query[key].t # "array"

\* C22: a query with a filter on a tag field whose value is present, not
\* the empty string and not an array does not raise and returns an empty
\* page with rowCount 0.
C22_MalformedTagFilterExcludesAll ==
    (fetched.fn # "none" /\ MalformedTagFilter(fetched.fn, search)) =>
        /\ ~fetched.threw
        /\ fetched.result = <<>>
        /\ fetched.rowCount = 0

\* fetchTasks has run with status: 'done' (a string) over records one of
\* which has the status done.
C22_Witness ==
    /\ fetched.fn = "fetchTasks"
    /\ Get(search, "status") = Str(cDone)
    /\ \E i \in 1..Len(data) : ArrIncludes(data[i]["status"].a, Str(cDone))
    /\ fetched.rowCount = 0

\* The fields of a record of `fn` that hold a number.
NumericKeys(fn) == {key \in DOMAIN Collection(fn)[1] : TypeOf(Collection(fn)[1][key]) = "number"}

\* The query holds a filter on a numeric field whose value is present, not
\* the empty string, and coerces to NaN.
NaNFilter(fn, query) ==
    \E key \in NumericKeys(fn) \cap DOMAIN query :
        /\ query[key] # Undef
        /\ query[key] # Str(<<>>)
        /\ ToNumber(query[key]) = NaNV

\* C23: a query with a filter on a numeric field whose value does not
\* coerce to a number does not raise and returns an empty page with
\* rowCount 0.
C23_NaNFilterMatchesNothing ==
    (fetched.fn # "none" /\ NaNFilter(fetched.fn, search)) =>
        /\ ~fetched.threw
        /\ fetched.result = <<>>
        /\ fetched.rowCount = 0

\* fetchTasks has run with id: 'a' and no other filter.
C23_Witness ==
    /\ fetched.fn = "fetchTasks"
    /\ search = Obj1("id", Str(<<"a">>))
    /\ Len(data) > 0
    /\ fetched.rowCount = 0

----------------------------------------------------------------------------
(* Claims about the table page.                                            *)

\* The records of the filtered population whose field `key` contains v.
PopulationCount(key, v) ==
    Cardinality({i \in 1..Len(fetched.filteredData) :
                    LET value == Get(fetched.filteredData[i], key)
                    IN IF value.t = "array" THEN ArrIncludes(value.a, v) ELSE value = v})

\* The number an option's count reads as: nothing is rendered for undefined.
CountShown(option) == IF FacetCount(option) = Undef THEN 0 ELSE FacetCount(option).n

\* C24: for every candidate value v of the faceted column the count shown
\* next to v is the number of records of the current filtered population
\* whose field contains v.
C24_FacetCountsOverPopulation ==
    Settled =>
        \A option \in FacetOptions(fetched.fn) :
            CountShown(option) = PopulationCount(FacetKey(fetched.fn), option)

----------------------------------------------------------------------------
(* Claims about the selection and the toolbar.                             *)

\* The ids selectedIds holds in a URL state.
SelectedIn(state) ==
    IF Get(state, "selectedIds").t = "array" THEN Range(state["selectedIds"].a) ELSE {}

\* C30: selectedIds never holds the same id twice, over every sequence of
\* row-checkbox toggles, select-all checks and unchecks and resets.
C30_SelectedIdsDuplicateFree ==
    Get(search, "selectedIds").t = "array" =>
        Cardinality(Range(search["selectedIds"].a)) = Len(search["selectedIds"].a)

\* A row was checked while two ids were selected already.
C30_Witness ==
    /\ Get(search, "selectedIds").t = "array"
    /\ Len(search["selectedIds"].a) = 3
    /\ last.op = "handleCheckChange"

\* The step is handleCheckChange(TRUE) of the row with this id.
ChecksRow(id) ==
    /\ calls' # calls
    /\ last'.op = "handleCheckChange"
    /\ last'.id = id
    /\ last'.value

\* C25: when the checkbox of row A is checked and then, with no other
\* navigation between, the checkbox of row B is checked, selectedIds in
\* the URL holds A and B, whether or not B's component has rendered with
\* the URL state A's change produced.
C25_BothChecksKept ==
    [][\A idA, idB \in Range(allIds(fakeUserData)) :
          (/\ last.op = "handleCheckChange" /\ last.id = idA /\ last.value
           /\ ChecksRow(idB))
          => {idA, idB} \subseteq SelectedIn(search')]_vars

\* The step is handleSelectAllChange.
TogglesSelectAll == calls' # calls /\ last'.op = "handleSelectAllChange"

\* C26: a toggle of the select-all checkbox keeps in selectedIds every id
\* that belongs to a row of another page.
C26_SelectAllKeepsOtherPages ==
    [][TogglesSelectAll =>
          (SelectedIn(search) \ Range(allIds(DisplayedRows))) \subseteq SelectedIn(search')]_vars

\* The step is a click of the ResetButton.
ClicksReset == calls' # calls /\ last'.op = "ResetButton"

\* C28: a click of the ResetButton leaves only pageIndex, pageSize and
\* selectedIds in the URL state, with the values they had (selectedIds only
\* when not empty), and IsColumnFiltered is false of the new state.
C28_ResetKeepsPageAndSelection ==
    [][ClicksReset =>
          /\ DOMAIN search' \subseteq {"pageIndex", "pageSize", "selectedIds"}
          /\ Get(search', "pageIndex") = Get(search, "pageIndex")
          /\ Get(search', "pageSize") = Get(search, "pageSize")
          /\ SelectedIn(search') = SelectedIn(search)
          /\ Get(search', "selectedIds") # Arr(<<>>)
          /\ ~IsColumnFiltered(search')]_vars

\* The step is handleClearFilters of the faceted filter.
ClearsFacet == calls' # calls /\ last'.op = "handleClearFilters"

\* C29: after 'clear filters' of a faceted filter the column's key is not
\* in the URL state and IsColumnFiltered does not count the column.
C29_ClearRemovesFacetKey ==
    [][ClearsFacet =>
          /\ FacetKey(fetched.fn) \notin DOMAIN search'
          /\ (DOMAIN search' \subseteq {"pageIndex", "pageSize", "selectedIds", FacetKey(fetched.fn)}
                 => ~IsColumnFiltered(search'))]_vars

\* C27: after a click of the ResetButton, with no keystroke after it, the
\* URL state holds no field-filter key and the next navigation leaves it
\* without one, also when a DebouncedInput's timeout was pending at the
\* click.
C27_ResetStaysReset ==
    [][last.op = "ResetButton" => ~IsColumnFiltered(search) /\ ~IsColumnFiltered(search')]_vars

====
